---------------------------- MODULE Spec2Model ----------------------------
(***************************************************************************)
(* A model of github.com/develrns/resilient: the aead envelope codec       *)
(* (aead/aead.go) and the OpenID Connect relying party built on it         *)
(* (oidc/oidc.go).                                                         *)
(*                                                                         *)
(* Strings are sequences of bytes (0..255), so that the text encodings the *)
(* code applies (base64 with the standard or the URL alphabet, the '.'     *)
(* joined literal, the JSON of the AuthnReqState) are computed, not        *)
(* assumed.  The AES-GCM primitive of the Go standard library is modelled  *)
(* as a deterministic keyed authenticated encryption: a keyed stream over  *)
(* the plaintext followed by a TagSize-byte tag over key, nonce,           *)
(* associated data and plaintext.  A Go panic is an outcome of its own     *)
(* ("panic"): the function does not return.                                *)
(***************************************************************************)
EXTENDS Integers, Sequences, FiniteSets, TLC

(***************************************************************************)
(* Bytes and text                                                          *)
(***************************************************************************)

RECURSIVE SumRange(_, _, _)
\* s[lo] + ... + s[hi]
SumRange(s, lo, hi) ==
    IF lo > hi THEN 0
    ELSE IF lo = hi THEN s[lo]
    ELSE LET mid == (lo + hi) \div 2
         IN  SumRange(s, lo, mid) + SumRange(s, mid + 1, hi)

Sum(s) == SumRange(s, 1, Len(s))

\* the position-weighted sum of a byte sequence
WSum(s) == SumRange([i \in 1..Len(s) |-> i * s[i]], 1, Len(s))

Pow2(k) == 2 ^ k

\* byte c with bit k (0..7) inverted
FlipBit(c, k) == IF (c \div Pow2(k)) % 2 = 1 THEN c - Pow2(k) ELSE c + Pow2(k)

\* s with its p-th byte replaced by c
SetAt(s, p, c) == [i \in 1..Len(s) |-> IF i = p THEN c ELSE s[i]]

RECURSIVE Join(_, _)
\* strings.Join / bytes.Buffer writes: the fields with sep between them
Join(fields, sep) ==
    IF Len(fields) = 0 THEN <<>>
    ELSE IF Len(fields) = 1 THEN fields[1]
    ELSE fields[1] \o sep \o Join(Tail(fields), sep)

\* strings.Split(s, sep) for a one-byte separator: always at least one field
Split(s, sep) ==
    LET at == {i \in 1..Len(s) : s[i] = sep}
        \* the position of the k-th separator; 0 and Len(s) + 1 bound the text
        Cut(k) == IF k = 0 THEN 0
                  ELSE IF k > Cardinality(at) THEN Len(s) + 1
                  ELSE CHOOSE p \in at : Cardinality({q \in at : q < p}) = k - 1
    IN  [k \in 1..(Cardinality(at) + 1) |-> SubSeq(s, Cut(k - 1) + 1, Cut(k) - 1)]

Dot == 46
PadChar == 61

(***************************************************************************)
(* encoding/base64: StdEncoding and URLEncoding (both padded, not strict)  *)
(***************************************************************************)

\* the character of 6-bit value i in the standard (url = FALSE) or the
\* URL-safe (url = TRUE) alphabet
B64Char(url, i) ==
    IF i < 26 THEN 65 + i
    ELSE IF i < 52 THEN 97 + (i - 26)
    ELSE IF i < 62 THEN 48 + (i - 52)
    ELSE IF i = 62 THEN (IF url THEN 45 ELSE 43)
    ELSE (IF url THEN 95 ELSE 47)

\* the 6-bit value of character c in the URL-safe alphabet, -1 when c is not
\* in that alphabet
URLIndex(c) ==
    IF c \in 65..90 THEN c - 65
    ELSE IF c \in 97..122 THEN c - 97 + 26
    ELSE IF c \in 48..57 THEN c - 48 + 52
    ELSE IF c = 45 THEN 62
    ELSE IF c = 95 THEN 63
    ELSE -1

\* Encoding.Encode: three bytes to four characters, the tail padded with '='
B64Encode(url, b) ==
    LET n == Len(b)
        At(i) == IF i <= n THEN b[i] ELSE 0
    IN  [j \in 1..(4 * ((n + 2) \div 3)) |->
            LET g == 3 * ((j - 1) \div 4)
                r == (j - 1) % 4
            IN  IF r = 0 THEN B64Char(url, At(g + 1) \div 4)
                ELSE IF r = 1 THEN B64Char(url, (At(g + 1) % 4) * 16 + At(g + 2) \div 16)
                ELSE IF r = 2 THEN
                    (IF g + 2 > n THEN PadChar
                     ELSE B64Char(url, (At(g + 2) % 16) * 4 + At(g + 3) \div 64))
                ELSE (IF g + 3 > n THEN PadChar ELSE B64Char(url, At(g + 3) % 64))]

\* the decoder skips '\n' and '\r' wherever they stand
StripNewlines(s) == SelectSeq(s, LAMBDA c : c # 10 /\ c # 13)

\* the quanta of four characters; only the last may end in one or two '=';
\* the bits a padded quantum does not use are not checked (no Strict mode)
URLDecodeQuanta(s) ==
    LET q == Len(s) \div 4
        Ix(g, r) == URLIndex(s[4 * (g - 1) + r])
        IsPad(g, r) == g = q /\ s[4 * (g - 1) + r] = PadChar
        QuantumOK(g) ==
            /\ Ix(g, 1) >= 0
            /\ Ix(g, 2) >= 0
            /\ \/ IsPad(g, 3) /\ IsPad(g, 4)
               \/ /\ Ix(g, 3) >= 0
                  /\ IsPad(g, 4) \/ Ix(g, 4) >= 0
        pad == IF q = 0 THEN 0
               ELSE IF IsPad(q, 3) THEN 2
               ELSE IF IsPad(q, 4) THEN 1
               ELSE 0
    IN  IF \A g \in 1..q : QuantumOK(g)
        THEN [ok |-> TRUE,
              bytes |-> [k \in 1..(3 * q - pad) |->
                            LET g == (k - 1) \div 3 + 1
                                r == (k - 1) % 3
                            IN  IF r = 0 THEN Ix(g, 1) * 4 + Ix(g, 2) \div 16
                                ELSE IF r = 1 THEN (Ix(g, 2) % 16) * 16 + Ix(g, 3) \div 4
                                ELSE (Ix(g, 3) % 4) * 64 + Ix(g, 4)]]
        ELSE [ok |-> FALSE, bytes |-> <<>>]

\* base64.URLEncoding.DecodeString
URLDecodeString(s) ==
    LET t == StripNewlines(s)
    IN  IF Len(t) % 4 # 0 THEN [ok |-> FALSE, bytes |-> <<>>]
        ELSE URLDecodeQuanta(t)

(***************************************************************************)
(* crypto/cipher GCM, idealised                                            *)
(***************************************************************************)

NonceSize == 12
TagSize == 16

\* the keystream byte at position i, from the key and the nonce (mix)
Pad(mix, i) == (mix + i * 13) % 256

\* what the keystream takes from the key and the nonce
Mix(key, nonce) == key * 29 + Sum(nonce) + WSum(nonce)

\* the TagSize bytes authenticating key, nonce, associated data and plaintext
GCMTag(key, nonce, ad, data) ==
    LET k == key * 17 + Sum(nonce) + 3 * WSum(nonce)
        d == << Len(ad), Sum(ad), WSum(ad), Len(data), Sum(data), WSum(data),
                Sum(ad) + Sum(data), WSum(ad) + WSum(data) >>
    IN  [j \in 1..TagSize |->
            IF j <= 8 THEN (d[j] + k * j) % 256
            ELSE (d[j - 8] * 3 + k * j + key) % 256]

\* AEAD.Seal(nil, nonce, plaintext, additionalData)
Seal(key, nonce, data, ad) ==
    LET mix == Mix(key, nonce)
    IN  [i \in 1..Len(data) |-> (data[i] + Pad(mix, i)) % 256]
            \o GCMTag(key, nonce, ad, data)

\* AEAD.Open(nil, nonce, ciphertext, additionalData): panics on a nonce of
\* the wrong length; an error when the tag does not authenticate
Open(key, nonce, ct, ad) ==
    IF Len(nonce) # NonceSize THEN [err |-> "panic", data |-> <<>>]
    ELSE IF Len(ct) < TagSize THEN [err |-> "auth", data |-> <<>>]
    ELSE
        LET n == Len(ct) - TagSize
            mix == Mix(key, nonce)
            data == [i \in 1..n |-> (ct[i] + 256 - Pad(mix, i)) % 256]
        IN  IF SubSeq(ct, n + 1, Len(ct)) = GCMTag(key, nonce, ad, data)
            THEN [err |-> "nil", data |-> data]
            ELSE [err |-> "auth", data |-> <<>>]

(***************************************************************************)
(* package aead                                                            *)
(***************************************************************************)

\* Encrypt(aeadCipher, metadata, data) with the nonce rand.Read delivered
\* (randOK = FALSE: rand.Read returned an error)
Encrypt(aeadCipher, metadata, data, nonce, randOK) ==
    IF ~randOK THEN [literal |-> <<>>, err |-> "rand"]
    ELSE
        LET ciphertext    == Seal(aeadCipher, nonce, data, metadata)
            b64metadata   == B64Encode(FALSE, metadata)
            b64ciphertext == B64Encode(TRUE, ciphertext)
            b64nonce      == B64Encode(TRUE, nonce)
        IN  [literal |-> Join(<<b64metadata, b64ciphertext, b64nonce>>, <<Dot>>),
             err |-> "nil"]

\* Decrypt without the check of Open's error: what comes out of Open is
\* returned whatever Open said (the variant C7 is tested against)
DecryptUnchecked(aeadCipher, literal) ==
    LET literalSubStrings == Split(literal, Dot)
        Fail(e) == [metadata |-> <<>>, data |-> <<>>, err |-> e]
    IN  IF Len(literalSubStrings) # 3 THEN Fail("format")
        ELSE
            LET metadata   == URLDecodeString(literalSubStrings[1])
                ciphertext == URLDecodeString(literalSubStrings[2])
                nonce      == URLDecodeString(literalSubStrings[3])
            IN  IF ~metadata.ok \/ ~ciphertext.ok \/ ~nonce.ok THEN Fail("encoding")
                ELSE [metadata |-> metadata.bytes,
                      data |-> Open(aeadCipher, nonce.bytes, ciphertext.bytes, metadata.bytes).data,
                      err |-> "nil"]

\* Decrypt(aeadCipher, literal): (metadata, data, err)
Decrypt(aeadCipher, literal) ==
    LET literalSubStrings == Split(literal, Dot)
        Fail(e) == [metadata |-> <<>>, data |-> <<>>, err |-> e]
    IN  IF Len(literalSubStrings) # 3 THEN Fail("format")
        ELSE
            LET metadata   == URLDecodeString(literalSubStrings[1])
                ciphertext == URLDecodeString(literalSubStrings[2])
                nonce      == URLDecodeString(literalSubStrings[3])
            IN  IF ~metadata.ok THEN Fail("encoding")
                ELSE IF ~ciphertext.ok THEN Fail("encoding")
                ELSE IF ~nonce.ok THEN Fail("encoding")
                ELSE
                    LET opened == Open(aeadCipher, nonce.bytes, ciphertext.bytes, metadata.bytes)
                    IN  IF opened.err # "nil" THEN Fail(opened.err)
                        ELSE [metadata |-> metadata.bytes, data |-> opened.data, err |-> "nil"]


(***************************************************************************)
(* package main (oidc): data                                               *)
(***************************************************************************)

\* "AuthnReqState", the label oidc seals its cookie under
AuthnReqStateLabel == <<65, 117, 116, 104, 110, 82, 101, 113, 83, 116, 97, 116, 101>>

\* type AuthnReqState struct { ClientID, Secret, State, Nonce string }
AuthnReqState(clientID, secret, state, nonce) ==
    [ClientID |-> clientID, Secret |-> secret, State |-> state, Nonce |-> nonce]

\* the zero value of the struct
ZeroAuthnReqState == AuthnReqState(<<>>, <<>>, <<>>, <<>>)

Quote == 34
Quoted(s) == <<Quote>> \o s \o <<Quote>>

\* the field names "ClientID", "Secret", "State", "Nonce"
FieldNames ==
    << <<67, 108, 105, 101, 110, 116, 73, 68>>, <<83, 101, 99, 114, 101, 116>>,
       <<83, 116, 97, 116, 101>>, <<78, 111, 110, 99, 101>> >>

\* json.Marshal(&authnReqState), for field values that need no escaping:
\* {"ClientID":"..","Secret":"..","State":"..","Nonce":".."}
Marshal(a) ==
    LET member(i, v) == Quoted(FieldNames[i]) \o <<58>> \o Quoted(v)
    IN  <<123>> \o Join(<< member(1, a.ClientID), member(2, a.Secret),
                          member(3, a.State), member(4, a.Nonce) >>, <<44>>) \o <<125>>

\* json.Unmarshal(bytes, &authnReqState), whose error the caller drops: the
\* struct keeps its zero value when the text is not the object Marshal writes
Unmarshal(text) ==
    LET t == Split(text, Quote)
        shaped == /\ Len(t) = 17
                  /\ t[1] = <<123>> /\ t[17] = <<125>>
                  /\ \A i \in 1..4 : t[4 * i - 2] = FieldNames[i] /\ t[4 * i - 1] = <<58>>
                  /\ \A i \in 1..3 : t[4 * i + 1] = <<44>>
    IN  IF shaped THEN AuthnReqState(t[4], t[8], t[12], t[16]) ELSE ZeroAuthnReqState

\* a query parameter of url.Values: the values given for the key, none when
\* the key is absent
Absent == <<>>

\* an HTTP response: nothing written yet has status 0
NoLocation == [set |-> FALSE, url |-> <<>>]
NoResponse == [status |-> 0, ctype |-> "", location |-> NoLocation, cookie |-> <<>>,
               msg |-> "", args |-> <<>>]

\* writeError(w, err): 400 Bad Request with the error text as body: msg names
\* the format of the text and args are the values printed into it; no
\* Content-Type is set, so net/http marks the text as plain
writeError(msg, args) ==
    [status |-> 400, ctype |-> "text/plain; charset=utf-8", location |-> NoLocation,
     cookie |-> <<>>, msg |-> msg, args |-> args]

(***************************************************************************)
(* handleLogin                                                             *)
(***************************************************************************)

\* the value of a hexadecimal digit, -1 for any other character
HexVal(c) ==
    IF c \in 48..57 THEN c - 48
    ELSE IF c \in 65..70 THEN c - 55
    ELSE IF c \in 97..102 THEN c - 87
    ELSE -1

RECURSIVE QueryUnescape(_)
\* url.QueryUnescape: %XX is the byte XX, '+' is a space
QueryUnescape(t) ==
    IF Len(t) = 0 THEN [ok |-> TRUE, bytes |-> <<>>]
    ELSE IF t[1] = 37 THEN
        IF Len(t) < 3 \/ HexVal(t[2]) < 0 \/ HexVal(t[3]) < 0
        THEN [ok |-> FALSE, bytes |-> <<>>]
        ELSE LET rest == QueryUnescape(SubSeq(t, 4, Len(t)))
             IN  [ok |-> rest.ok,
                  bytes |-> IF rest.ok THEN <<HexVal(t[2]) * 16 + HexVal(t[3])>> \o rest.bytes
                            ELSE <<>>]
    ELSE LET rest == QueryUnescape(Tail(t))
         IN  [ok |-> rest.ok,
              bytes |-> IF rest.ok THEN <<IF t[1] = 43 THEN 32 ELSE t[1]>> \o rest.bytes
                        ELSE <<>>]

\* the first position of byte c in t, 0 when it is not there
IndexByte(t, c) ==
    IF \E i \in 1..Len(t) : t[i] = c
    THEN CHOOSE i \in 1..Len(t) : t[i] = c /\ \A j \in 1..(i - 1) : t[j] # c
    ELSE 0

\* URL.Query() / url.ParseQuery: the values of the query parameter name, in
\* the order they stand in the URL; the query is what follows the first '?',
\* its pairs are separated by '&', key and value by the first '=', and a
\* pair that does not unescape is left out
QueryValues(url, name) ==
    LET q == IndexByte(url, 63)
        raw == IF q = 0 THEN <<>> ELSE SubSeq(url, q + 1, Len(url))
        pieces == SelectSeq(Split(raw, 38), LAMBDA x : x # <<>>)
        Pair(x) == LET e == IndexByte(x, 61)
                       k == QueryUnescape(IF e = 0 THEN x ELSE SubSeq(x, 1, e - 1))
                       v == QueryUnescape(IF e = 0 THEN <<>> ELSE SubSeq(x, e + 1, Len(x)))
                   IN  [ok |-> k.ok /\ v.ok, key |-> k.bytes, val |-> v.bytes]
        hits == SelectSeq(pieces, LAMBDA x : Pair(x).ok /\ Pair(x).key = name)
    IN  [i \in 1..Len(hits) |-> Pair(hits[i]).val]

\* the names of the query parameters of the Authn Request
ParamClientID == <<99, 108, 105, 101, 110, 116, 95, 105, 100>>
ParamState == <<115, 116, 97, 116, 101>>
ParamNonce == <<110, 111, 110, 99, 101>>
ParamRedirectURI == <<114, 101, 100, 105, 114, 101, 99, 116, 95, 117, 114, 105>>

\* init, lines 138-140: the OP endpoints
opAuthnEndpoint(cfg) ==
    <<104, 116, 116, 112, 115, 58, 47, 47>> \o cfg.ophost \o <<47, 111, 112, 101, 110, 73, 100, 47, 97, 117, 116, 104, 101, 110, 116, 105, 99, 97, 116, 101>>
opTokenEndpoint(cfg) ==
    <<104, 116, 116, 112, 115, 58, 47, 47>> \o cfg.ophost \o <<47, 111, 112, 101, 110, 73, 100, 47, 116, 111, 107, 101, 110>>
opUserInfoEndpoint(cfg) ==
    <<104, 116, 116, 112, 115, 58, 47, 47>> \o cfg.ophost \o <<47, 111, 112, 101, 110, 73, 100, 47, 117, 115, 101, 114, 105, 110, 102, 111>>

\* "https://" + exthost + "/authn-token"
RedirectURI(cfg) ==
    <<104, 116, 116, 112, 115, 58, 47, 47>> \o cfg.exthost \o <<47, 97, 117, 116, 104, 110, 45, 116, 111, 107, 101, 110>>

\* line 193: the Authn Request URL, the pieces put one after the other as
\* they are
AuthnReqURL(cfg, clientID, oidState, oidNonce) ==
    opAuthnEndpoint(cfg)
    \o <<63, 114, 101, 115, 112, 111, 110, 115, 101, 95, 116, 121, 112, 101, 61, 99, 111, 100, 101, 38, 115, 99, 111, 112, 101, 61, 111, 112, 101, 110, 105, 100, 37, 50, 48>>
    \o cfg.scope
    \o <<38, 99, 108, 105, 101, 110, 116, 95, 105, 100, 61>> \o clientID
    \o <<38, 115, 116, 97, 116, 101, 61>> \o oidState
    \o <<38, 110, 111, 110, 99, 101, 61>> \o oidNonce
    \o <<38, 114, 101, 100, 105, 114, 101, 99, 116, 95, 117, 114, 105, 61>> \o RedirectURI(cfg)

\* handleLogin with the override check looking one way only: a clientid
\* without a secret is refused, a secret without a clientid is not (the
\* variant C10 is tested against)
handleLoginOneSided(cfg, cipher, method, clientIDs, secrets, oidState, oidNonce, gcmNonce, randOK) ==
    LET okClientIDs == clientIDs # Absent
        okSecrets   == secrets # Absent
        clientID    == IF okClientIDs THEN clientIDs[1] ELSE cfg.defaultClientID
        secret      == IF okSecrets THEN secrets[1] ELSE cfg.defaultOpSharedSecret
        authnReqState == AuthnReqState(clientID, secret, oidState, oidNonce)
        sealed      == Encrypt(cipher, AuthnReqStateLabel, Marshal(authnReqState), gcmNonce, randOK)
    IN  IF method # "GET"
            THEN [rsp |-> writeError("Bad HTTP Method", <<>>), authnCookieValue |-> <<>>]
        ELSE IF okClientIDs /\ ~okSecrets
            THEN [rsp |-> writeError("Both clientid and secret query parameters must be provided", <<>>),
                  authnCookieValue |-> <<>>]
        ELSE IF sealed.err # "nil"
            THEN [rsp |-> writeError("rand", <<>>), authnCookieValue |-> <<>>]
        ELSE [rsp |-> [status |-> 303, ctype |-> "",
                       location |-> [set |-> TRUE,
                                     url |-> AuthnReqURL(cfg, clientID, oidState, oidNonce)],
                       cookie |-> sealed.literal, msg |-> "", args |-> <<>>],
              authnCookieValue |-> sealed.literal]

\* handleLogin for a request with the given method and clientid / secret
\* query values, under configuration cfg, with the random values drawn for
\* the state, the nonce and the GCM nonce.  The result is the response
\* together with authnCookieValue as it stands at the return.
handleLogin(cfg, cipher, method, clientIDs, secrets, oidState, oidNonce, gcmNonce, randOK) ==
    LET okClientIDs == clientIDs # Absent
        okSecrets   == secrets # Absent
        clientID    == IF okClientIDs THEN clientIDs[1] ELSE cfg.defaultClientID
        secret      == IF okSecrets THEN secrets[1] ELSE cfg.defaultOpSharedSecret
        authnReqState == AuthnReqState(clientID, secret, oidState, oidNonce)
        sealed      == Encrypt(cipher, AuthnReqStateLabel, Marshal(authnReqState), gcmNonce, randOK)
    IN  IF method # "GET"
            THEN [rsp |-> writeError("Bad HTTP Method", <<>>), authnCookieValue |-> <<>>]
        ELSE IF okClientIDs # okSecrets
            THEN [rsp |-> writeError("Both clientid and secret query parameters must be provided", <<>>),
                  authnCookieValue |-> <<>>]
        ELSE IF sealed.err # "nil"
            THEN [rsp |-> writeError("rand", <<>>), authnCookieValue |-> <<>>]
        ELSE [rsp |-> [status |-> 303, ctype |-> "",
                       location |-> [set |-> TRUE,
                                     url |-> AuthnReqURL(cfg, clientID, oidState, oidNonce)],
                       cookie |-> sealed.literal, msg |-> "", args |-> <<>>],
              authnCookieValue |-> sealed.literal]

(***************************************************************************)
(* handleAuthnToken                                                        *)
(*                                                                         *)
(* The handler's local variables form the record of one callback request.  *)
(* pc is the pipeline state the request is in ("Rejected": writeError was  *)
(* called and the handler returned; "Panicked": the handler's goroutine    *)
(* panicked, net/http recovers it and drops the connection without a       *)
(* response); last is the pipeline state it reached before.  What the      *)
(* request carries (cookie, query parameters) and what the OP answers is   *)
(* fixed by the browser and the OP; the record takes each of them up when  *)
(* the handler first reads it (read = TRUE), so that what the handler      *)
(* never reads stays arbitrary.                                            *)
(***************************************************************************)

Unread == [read |-> FALSE, vals |-> <<>>]
Param(vals) == [read |-> TRUE, vals |-> vals]

NoCookie == [read |-> FALSE, present |-> FALSE, value |-> <<>>]
NoAssertion == [signed |-> FALSE, iss |-> <<>>, sub |-> <<>>, aud |-> "", key |-> <<>>]
NoTokenRsp == [read |-> FALSE, status |-> 0, ctype |-> "", readErr |-> FALSE, json |-> FALSE,
               text |-> <<>>]
NoNonceClaim == [type |-> "missing", val |-> <<>>]
NoIDToken == [parsed |-> FALSE, nonce |-> NoNonceClaim, header |-> <<>>, claims |-> <<>>]
ZeroTokenRspBody == [AccessToken |-> <<>>, IDToken |-> <<>>]
NoUserInfoRsp == [read |-> FALSE, readErr |-> FALSE, status |-> 0, body |-> <<>>]

\* the parameters of the callback's query that the OP's answer is made of,
\* not looked at yet
NoQuery == [read |-> FALSE, error |-> Absent, error_description |-> Absent,
            error_uri |-> Absent, code |-> Absent]

\* the text of the id_token was not handed to jwt.Parse yet
NoJwt == [read |-> FALSE, kind |-> "", key |-> <<>>]

IdleCallback ==
    [id |-> 0, pc |-> "idle", last |-> "idle", method |-> "", query |-> NoQuery, jwt |-> NoJwt,
     cookie |-> NoCookie, authnReqStateString |-> <<>>, authnReqState |-> ZeroAuthnReqState,
     state |-> Unread, error |-> Unread, code |-> Unread,
     clientAssertion |-> NoAssertion,
     tokenRsp |-> NoTokenRsp, tokenRspBody |-> ZeroTokenRspBody, idToken |-> NoIDToken,
     userInfoRsp |-> NoUserInfoRsp,
     rsp |-> NoResponse]

Terminal == {"Responded", "Rejected", "Panicked"}

\* the handler returns through writeError
Reject(c, msg, args) == [c EXCEPT !.pc = "Rejected", !.rsp = writeError(msg, args)]

\* the handler panics: nothing is written
Panic(c) == [c EXCEPT !.pc = "Panicked"]

\* the handler moves on to the next pipeline state
Advance(c, stage) == [c EXCEPT !.pc = stage, !.last = stage]

\* a handler that serves every method (the variant C34 is tested against)
OpenCookieAnyMethod(c, cipher, present, value) ==
    LET c1 == [c EXCEPT !.cookie = [read |-> TRUE, present |-> present, value |-> value]]
        d  == Decrypt(cipher, value)
    IN  IF ~present THEN Reject(c1, "Missing authnCookie", <<>>)
        ELSE IF d.err = "panic" THEN Panic(c1)
        ELSE IF d.err # "nil" THEN Reject(c1, d.err, <<value>>)
        ELSE Advance([c1 EXCEPT !.authnReqStateString = d.data], "CookieOpened")

\* lines 242-257: the method check, the cookie, aead.Decrypt
OpenCookie(c, cipher, present, value) ==
    IF c.method # "GET" THEN Reject(c, "Bad HTTP Method", <<>>)
    ELSE
        LET c1 == [c EXCEPT !.cookie = [read |-> TRUE, present |-> present, value |-> value]]
            d  == Decrypt(cipher, value)
        IN  IF ~present THEN Reject(c1, "Missing authnCookie", <<>>)
            ELSE IF d.err = "panic" THEN Panic(c1)
            ELSE IF d.err # "nil" THEN Reject(c1, d.err, <<value>>)
            ELSE Advance([c1 EXCEPT !.authnReqStateString = d.data], "CookieOpened")

\* line 258: json.Unmarshal, its error dropped
DecodeState(c) ==
    Advance([c EXCEPT !.authnReqState = Unmarshal(c.authnReqStateString)], "StateDecoded")

\* the state check without the comparison: any single value passes (the
\* variant C1 is tested against)
CheckStateAnyValue(c, authnRespStates) ==
    LET c1 == [c EXCEPT !.state = Param(authnRespStates)]
    IN  IF authnRespStates = Absent THEN Reject(c1, "Missing Authn Response State", <<>>)
        ELSE IF Len(authnRespStates) # 1
            THEN Reject(c1, "Authn Response State has values", <<>>)
        ELSE Advance(c1, "StateChecked")

\* the state check with a diagnostic that prints the whole AuthnReqState, as
\* the Println at line 259 does (the variant C15 is tested against)
CheckStateEchoFlowState(c, authnRespStates) ==
    LET c1 == [c EXCEPT !.state = Param(authnRespStates)]
    IN  IF authnRespStates = Absent THEN Reject(c1, "Missing Authn Response State", <<>>)
        ELSE IF Len(authnRespStates) # 1
            THEN Reject(c1, "Authn Response State has values", <<>>)
        ELSE IF c.authnReqState.State # authnRespStates[1]
            THEN Reject(c1, "State match failed", <<Marshal(c.authnReqState), authnRespStates[1]>>)
        ELSE Advance(c1, "StateChecked")

\* lines 261-280: the state parameter must be there once and equal the
\* cookie's State
CheckState(c, authnRespStates) ==
    LET c1 == [c EXCEPT !.state = Param(authnRespStates)]
    IN  IF authnRespStates = Absent THEN Reject(c1, "Missing Authn Response State", <<>>)
        ELSE IF Len(authnRespStates) # 1
            THEN Reject(c1, "Authn Response State has values", <<>>)
        ELSE IF c.authnReqState.State # authnRespStates[1]
            THEN Reject(c1, "State match failed", <<c.authnReqState.State, authnRespStates[1]>>)
        ELSE Advance(c1, "StateChecked")

\* lines 282-298: an error reported by the OP; exactly one code
\* fmt's %v of a []string: the values between brackets, a space between
\* two; the values of a missing parameter print as []
FormatValues(vals) == <<91>> \o Join(vals, <<32>>) \o <<93>>

\* the query the handler works on from here
WithQuery(c, error, errorDescription, errorURI, authnRespCodes) ==
    [c EXCEPT !.query = [read |-> TRUE, error |-> error,
                         error_description |-> errorDescription,
                         error_uri |-> errorURI, code |-> authnRespCodes]]

\* a handler that looks for the code before it looks for the OP's error (the
\* variant C29 is tested against)
CheckCodeBeforeError(c, error, errorDescription, errorURI, authnRespCodes) ==
    LET c0 == WithQuery(c, error, errorDescription, errorURI, authnRespCodes)
        c1 == [c0 EXCEPT !.error = Param(error)]
        c2 == [c1 EXCEPT !.code = Param(authnRespCodes)]
    IN  IF authnRespCodes = Absent
            THEN Reject(c2, "Missing Authn Response Authorization Code", <<>>)
        ELSE IF Len(authnRespCodes) # 1
            THEN Reject(c2, "Authn Response Authorization Code has values", <<>>)
        ELSE IF error # Absent
            THEN Reject(c1, "OP Authn Request Error",
                        <<FormatValues(error), FormatValues(errorDescription),
                          FormatValues(errorURI)>>)
        ELSE Advance(c2, "CodeChecked")

\* a handler that takes the first of several codes (the variant C30 is tested
\* against)
CheckCodeTakesFirst(c, error, errorDescription, errorURI, authnRespCodes) ==
    LET c0 == WithQuery(c, error, errorDescription, errorURI, authnRespCodes)
        c1 == [c0 EXCEPT !.error = Param(error)]
        c2 == [c1 EXCEPT !.code = Param(authnRespCodes)]
    IN  IF error # Absent
            THEN Reject(c1, "OP Authn Request Error",
                        <<FormatValues(error), FormatValues(errorDescription),
                          FormatValues(errorURI)>>)
        ELSE IF authnRespCodes = Absent
            THEN Reject(c2, "Missing Authn Response Authorization Code", <<>>)
        ELSE Advance(c2, "CodeChecked")

\* lines 282-298: the OP's error, printed with its description and its URI,
\* then the code, which must have one value
CheckCode(c, error, errorDescription, errorURI, authnRespCodes) ==
    LET c0 == WithQuery(c, error, errorDescription, errorURI, authnRespCodes)
        c1 == [c0 EXCEPT !.error = Param(error)]
        c2 == [c1 EXCEPT !.code = Param(authnRespCodes)]
    IN  IF error # Absent
            THEN Reject(c1, "OP Authn Request Error",
                        <<FormatValues(error), FormatValues(errorDescription),
                          FormatValues(errorURI)>>)
        ELSE IF authnRespCodes = Absent
            THEN Reject(c2, "Missing Authn Response Authorization Code", <<>>)
        ELSE IF Len(authnRespCodes) # 1
            THEN Reject(c2, "Authn Response Authorization Code has values", <<>>)
        ELSE Advance(c2, "CodeChecked")

\* lines 300-308: the client assertion, signed with the cookie's Secret
SignAssertion(c, signOK) ==
    IF ~signOK THEN Reject(c, "Client Assertion Signing Error", <<>>)
    ELSE Advance([c EXCEPT !.clientAssertion =
                     [signed |-> TRUE, iss |-> c.authnReqState.ClientID,
                      sub |-> c.authnReqState.ClientID, aud |-> "opTokenEndpoint",
                      key |-> c.authnReqState.Secret]], "AssertionSigned")

\* line 309: the form posted to the token endpoint
TokenRequestForm(c, cfg) ==
    [endpoint |-> "token", req |-> c.id, cookie |-> c.cookie.value,
     code |-> c.code.vals[1], client_id |-> c.authnReqState.ClientID,
     assertionKey |-> c.clientAssertion.key, authorization |-> <<>>,
     redirect_uri |-> RedirectURI(cfg)]

\* a handler that posts again when the post failed (the variant C5 is tested
\* against)
TokenPostRetry(c, netOK) ==
    IF ~netOK THEN c
    ELSE Advance(c, "TokenExchanged")

\* lines 310-314: opClient.PostForm returned (netOK) or failed
TokenPost(c, netOK) ==
    IF ~netOK THEN Reject(c, "Token Endpoint Form Post Error", <<>>)
    ELSE Advance(c, "TokenExchanged")

\* the Status of a response as %v prints it: it begins with the status code
\* in decimal (the reason phrase, which the OP chooses, is left out)
StatusText(status) ==
    <<48 + (status \div 100), 48 + ((status \div 10) % 10), 48 + (status % 10)>>

\* a handler that does not look at the Content-Type (the variant C31 is
\* tested against)
ParseTokenAnyContentType(c, status, ctype, readErr, json, body, text) ==
    LET c1 == [c EXCEPT !.tokenRsp = [read |-> TRUE, status |-> status, ctype |-> ctype,
                                      readErr |-> readErr, json |-> json, text |-> text]]
    IN  IF status # 200
            THEN Reject(c1, "OP Token Request Status Error", <<StatusText(status), text>>)
        ELSE IF ~json THEN Reject(c1, "Error Decoding Token Response Body", <<>>)
        ELSE Advance([c1 EXCEPT !.tokenRspBody = body], "TokenParsed")

\* lines 316-336: the body is read (the read's error is dropped), then the
\* status, the content type and the JSON of the body are checked
ParseToken(c, status, ctype, readErr, json, body, text) ==
    LET c1 == [c EXCEPT !.tokenRsp = [read |-> TRUE, status |-> status, ctype |-> ctype,
                                      readErr |-> readErr, json |-> json, text |-> text]]
    IN  IF status # 200
            THEN Reject(c1, "OP Token Request Status Error", <<StatusText(status), text>>)
        ELSE IF ctype # "application/json"
            THEN Reject(c1, "OP Token Request Bad Content-Type", <<>>)
        ELSE IF ~json THEN Reject(c1, "Error Decoding Token Response Body", <<>>)
        ELSE Advance([c1 EXCEPT !.tokenRspBody = body], "TokenParsed")

\* jwt.Parse(token, keyFunc) with keyFunc returning the secret: the token
\* must be a JWT whose HMAC verifies under the secret.  jwt is what the text
\* of the token turns out to be: its kind ("garbage", "jwt"), the key it was
\* signed with and its nonce claim
\*
\* a parse that does not verify the signature (the variant C32 is tested
\* against)
JwtParseAnyKey(jwt, secret) ==
    IF jwt.kind # "jwt" THEN "malformed"
    ELSE "nil"

\* jwt.Parse(token, keyFunc) with keyFunc returning the secret
JwtParse(jwt, secret) ==
    IF jwt.kind # "jwt" THEN "malformed"
    ELSE IF jwt.key # secret THEN "signature"
    ELSE "nil"

\* lines 338-355: the ID token is there, verifies, and carries the nonce of
\* the cookie; idToken.Claims["nonce"].(string) panics unless the claim is a
\* string
CheckNonce(c, jwt) ==
    LET c0 == [c EXCEPT !.jwt = [read |-> TRUE, kind |-> jwt.kind, key |-> jwt.key]]
    IN
    IF c.tokenRspBody.IDToken = <<>> THEN Reject(c, "Missing Token Response ID Token", <<>>)
    ELSE IF JwtParse(jwt, c.authnReqState.Secret) # "nil"
        THEN Reject(c0, "ID Token Parsing Failed with Error", <<>>)
    ELSE
        LET c1 == [c0 EXCEPT !.idToken = [NoIDToken EXCEPT !.parsed = TRUE, !.nonce = jwt.nonce]]
        IN  IF jwt.nonce.type # "string" THEN Panic(c1)
            ELSE IF c.authnReqState.Nonce # jwt.nonce.val
                THEN Reject(c1, "Authn Request Nonce does not match ID Token Nonce",
                            <<c.authnReqState.Nonce, jwt.nonce.val>>)
            ELSE Advance(c1, "NonceChecked")

\* a handler that asks for the userinfo whatever the access token is (the
\* variant C33 is tested against)
HasAccessTokenUnchecked(c) == TRUE

\* line 358: without an access token there is no userinfo request
HasAccessToken(c) == c.tokenRspBody.AccessToken # <<>>

\* line 363: "Bearer "
Bearer == <<66, 101, 97, 114, 101, 114, 32>>

\* lines 362-365: the GET sent to the userinfo endpoint, with its
\* Authorization header
UserInfoReq(c) ==
    [endpoint |-> "userinfo", req |-> c.id, cookie |-> c.cookie.value,
     code |-> <<>>, client_id |-> <<>>, assertionKey |-> <<>>,
     authorization |-> Bearer \o c.tokenRspBody.AccessToken, redirect_uri |-> <<>>]

\* a handler that asks the userinfo endpoint again when the request failed
\* or was refused (the variant C17 is tested against)
UserInfoAskAgain(c, netOK, readErr, status, body) ==
    IF ~HasAccessToken(c) THEN Reject(c, "Missing Token Response Access Token", <<>>)
    ELSE IF ~netOK \/ status # 200 THEN c
    ELSE
        LET c1 == [c EXCEPT !.userInfoRsp = [read |-> TRUE, readErr |-> readErr,
                                             status |-> status, body |-> body]]
        IN  IF readErr THEN Reject(c1, "Reading User Info Request Body Failed", <<>>)
            ELSE Advance(c1, "UserInfoFetched")

\* lines 357-378: the userinfo request and what came back
UserInfo(c, netOK, readErr, status, body) ==
    IF ~HasAccessToken(c) THEN Reject(c, "Missing Token Response Access Token", <<>>)
    ELSE IF ~netOK THEN Reject(c, "User Info Request Failed", <<>>)
    ELSE
        LET c1 == [c EXCEPT !.userInfoRsp = [read |-> TRUE, readErr |-> readErr,
                                             status |-> status, body |-> body]]
        IN  IF readErr THEN Reject(c1, "Reading User Info Request Body Failed", <<>>)
            ELSE IF status # 200
                THEN Reject(c1, "User Info Request Failed", <<StatusText(status), body>>)
            ELSE Advance(c1, "UserInfoFetched")

\* one turn of the loops at lines 382 and 388: `"` + key + `": "` + val + `",`
Member(p) == Quoted(p.key) \o <<58, 32>> \o <<Quote>> \o p.val \o <<Quote, 44>>

RECURSIVE Members(_)
Members(ps) == IF Len(ps) = 0 THEN <<>> ELSE Member(Head(ps)) \o Members(Tail(ps))

\* t[:n]: a slice past the end of t, or a negative n, panics
SliceTo(t, n) ==
    IF n < 0 \/ n > Len(t) THEN [panic |-> TRUE, text |-> <<>>]
    ELSE [panic |-> FALSE, text |-> SubSeq(t, 1, n)]

\* lines 381-397: resultJSON for the ID token's header and claims, each the
\* pairs (key, val, str) in the order the range loop visits them, str telling
\* whether the value is a string.  val.(string) panics on a header value
\* that is not a string; a claim's value is printed by fmt.Sprint
ResultJSON(header, claims, userInfoRspBodyBytes) ==
    LET h0 == <<123>> \o Members(header)
        h1 == SliceTo(h0, Len(h0) - 2)
        headerJSON == h1.text \o <<125>>
        c0 == <<123>> \o Members(claims)
        c1 == SliceTo(c0, Len(headerJSON) - 2)
        claimsJSON == c1.text \o <<125>>
        idTokenJSON == <<123, 34, 104, 101, 97, 100, 101, 114, 34, 58, 32>> \o headerJSON \o <<44, 32, 34, 99, 108, 97, 105, 109, 115, 34, 58, 32>> \o claimsJSON \o <<125>>
    IN  IF \E i \in 1..Len(header) : ~header[i].str THEN [panic |-> TRUE, text |-> <<>>]
        ELSE IF h1.panic \/ c1.panic THEN [panic |-> TRUE, text |-> <<>>]
        ELSE [panic |-> FALSE,
              text |-> <<123, 34, 105, 100, 116, 111, 107, 101, 110, 34, 58, 32>> \o idTokenJSON \o <<44, 32, 34, 117, 115, 101, 114, 105, 110, 102, 111, 34, 58, 32>> \o userInfoRspBodyBytes \o <<125>>]

\* lines 380-397: the body is put together and written, which answers 200,
\* with the Content-Type the handler sets
Respond(c, header, claims) ==
    LET resultJSON == ResultJSON(header, claims, c.userInfoRsp.body)
        c1 == [c EXCEPT !.idToken.header = header, !.idToken.claims = claims]
    IN  IF resultJSON.panic THEN Panic(c1)
        ELSE [c1 EXCEPT !.pc = "Responded", !.last = "Responded",
                       !.rsp = [status |-> 200, ctype |-> "application/JSON",
                                location |-> NoLocation, cookie |-> <<>>,
                                msg |-> "resultJSON", args |-> <<resultJSON.text>>]]

(***************************************************************************)
(* Universe of the codec harness                                           *)
(***************************************************************************)

\* AES keys, by name: the process's cipher holds one of them
Keys == {3, 11}

\* metadata strings: "", "A", "aa?" (its standard base64 is "YWE/"),
\* "AuthnReqState"
Labels == { <<>>, <<65>>, <<97, 97, 63>>, AuthnReqStateLabel }

\* data strings: "", "h", "hi"
Payloads == { <<>>, <<104>>, <<104, 105>> }

\* what rand.Read may deliver for the nonce
Nonces == { [i \in 1..NonceSize |-> 7], [i \in 1..NonceSize |-> (i * 21) % 256] }

VARIABLES
    config,       \* oidc: the command flags as init left them
    aeadCipher,   \* oidc: the process's AEAD cipher (its key)
    browser,      \* the accepted logins the browser side holds: cookie and Location
    login,        \* the /login exchange, when it was the last request served
    nLogin,       \* /login requests handled so far
    cb,           \* the /authn-token request, when it is the last request received
    nCb,          \* /authn-token requests received so far
    opCalls,      \* the requests sent to the OP so far, in order
    encCall,      \* harness: the last Encrypt call, arguments and result
    decInput,     \* harness: the literal handed to Decrypt and how it was made
    decResult,    \* harness: what Decrypt returned
    hpc,          \* harness: "idle", "sealed", "ready", "opened"
    conc,         \* the requests of each browser when requests are served concurrently
    proc,         \* the process: which instance it is, how far main got, the key it was given
    poll,         \* package poll: the clock, the States table, the States made, their users
    jld,          \* package jld: the last call of the harness, its arguments and its result
    States,       \* package poll: the States table, its mutex and the goroutines calling it
    logs          \* package log: the shared logger, the handles given out, the last Config

aeadVars == <<encCall, decInput, decResult, hpc>>
oidcVars == <<config, browser, login, nLogin, cb, nCb, opCalls, conc, proc>>
libVars == <<poll, jld, States, logs>>

\* flags: -exthost rp -ophost op -clientid c0 -secret s0
Flags == [exthost |-> <<114, 112>>, ophost |-> <<111, 112>>,
          defaultClientID |-> <<99, 48>>, defaultOpSharedSecret |-> <<115, 48>>,
          scope |-> <<>>]

NoLogin == [id |-> 0, method |-> "", clientIDs |-> Absent, secrets |-> Absent,
            rsp |-> NoResponse, authnCookieValue |-> <<>>]

\* the browsers whose requests the server handles at the same time
Browsers == {1, 2}

\* what handleLogin read of a /login request and drew, and what it answered
NoLoginIn == [method |-> "", clientIDs |-> Absent, secrets |-> Absent,
              oidState |-> <<>>, oidNonce |-> <<>>, gcmNonce |-> <<>>, randOK |-> FALSE]
NoLoginOut == [rsp |-> NoResponse, authnCookieValue |-> <<>>]

\* a browser that asked for nothing yet: its /login (done, in, out), its
\* /authn-token request (cb) and what that request's handler read so far,
\* step by step (trace)
NoFlow == [done |-> FALSE, in |-> NoLoginIn, out |-> NoLoginOut,
           cb |-> IdleCallback, trace |-> <<>>]

\* no key (a nil slice), and the keys a caller may pass: their length in
\* bytes and what tells two keys of a length apart
NilKey == [len |-> 0, val |-> 0]
KeyArgs == {NilKey, [len |-> 16, val |-> 3], [len |-> 16, val |-> 11], [len |-> 24, val |-> 5],
            [len |-> 32, val |-> 7], [len |-> 36, val |-> 9]}

\* what rand.Read may put into the 32 bytes of keyval
GeneratedKeys == {[len |-> 32, val |-> 13], [len |-> 32, val |-> 17]}

\* the nil cipher.AEAD
NilCipher == 0

\* the key lengths aes.NewCipher takes
AESKeyLengths == {16, 24, 32}

\* lines 24-62 of aead.go: keyval is generated when key is nil and is key
\* otherwise (of length 16, 24 or 36); the AES cipher block is made from key
NewAEADCipher(key, generated, randOK) ==
    LET keyval == IF key = NilKey THEN generated ELSE key
    IN  IF key = NilKey /\ ~randOK THEN [aeadCipher |-> NilCipher, err |-> "rand"]
        ELSE IF key # NilKey /\ key.len \notin {16, 24, 36}
            THEN [aeadCipher |-> NilCipher, err |-> "length"]
        ELSE IF key.len \notin AESKeyLengths
            THEN [aeadCipher |-> NilCipher, err |-> "KeySizeError"]
        ELSE [aeadCipher |-> key.val, err |-> "nil"]

\* the process main has brought up: the first instance, serving; key and
\* sealer are told only where the process's start is followed
Serving == [state |-> "serving", instance |-> 1, key |-> NilKey, sealer |-> 0]

(***************************************************************************)
(* package poll                                                            *)
(*                                                                         *)
(* The States table maps a key to a *State.  A State, once made, lives on  *)
(* the heap whether or not the table still holds it: heap[p] is the State  *)
(* the pointer p refers to.  Time is counted in half hours.                *)
(***************************************************************************)

\* time.Hour, in half hours
Hour == 2

\* the separator of path elements, '/'
Slash == 47

\* the nil *State
NoState == 0

\* uuid.NewRandom().String() for the p-th State made: "k1", "k2", ...
KeyOf(p) == <<107, 48 + p>>

\* the long-poll base path "/poll/"
BasePath == <<47, 112, 111, 108, 108, 47>>

\* a channel as make(chan interface{}, 1) leaves it
NewChan == [cap |-> 1, buf |-> <<>>]

\* NewState with a channel that holds nothing (the variant C25 is tested
\* against)
NewStateUnbuffered(key, now) ==
    [C |-> [cap |-> 0, buf |-> <<>>], Key |-> key, created |-> now]

\* lines 152-159: the State NewState makes
NewState(key, now) == [C |-> NewChan, Key |-> key, created |-> now]

\* lines 72-77: ss.s[key] = state
addState(table, state, key) ==
    [k \in DOMAIN table \cup {key} |-> IF k = key THEN state ELSE table[k]]

\* a GetState that takes the first path element for the key (the variant C24
\* is tested against)
GetStateFirstElement(table, keyOrPath) ==
    LET elements == Split(keyOrPath, Slash)
        key == elements[1]
    IN  IF key \in DOMAIN table THEN [state |-> table[key], ok |-> TRUE]
        ELSE [state |-> NoState, ok |-> FALSE]

\* lines 81-108: the key is keyOrPath or its last path element; the State
\* the table holds for it
GetState(table, keyOrPath) ==
    LET elements == Split(keyOrPath, Slash)
        key == IF Len(elements) = 1 THEN keyOrPath ELSE elements[Len(elements)]
    IN  IF Len(elements) = 0 THEN [state |-> NoState, ok |-> FALSE]
        ELSE IF key \in DOMAIN table THEN [state |-> table[key], ok |-> TRUE]
        ELSE [state |-> NoState, ok |-> FALSE]

\* lines 111-116: delete(ss.s, key)
delState(table, key) == [k \in DOMAIN table \ {key} |-> table[k]]

\* a purge that also takes the States that are exactly one hour old (the
\* variant C23 is tested against)
purgeFromOneHour(table, heap, now) ==
    [k \in {k \in DOMAIN table : ~(now >= heap[table[k]].created + Hour)} |-> table[k]]

\* lines 123-132: every State for which time.Now() is after created + Hour
\* is deleted; the mutex is held throughout
purgeAbandonedStates(table, heap, now) ==
    [k \in {k \in DOMAIN table : ~(now > heap[table[k]].created + Hour)} |-> table[k]]

\* a send on the channel ch: it ends at once when a receiver waits or the
\* buffer has room, and blocks otherwise
ChanSend(ch, v, receiverWaits) ==
    IF receiverWaits THEN [ch |-> ch, done |-> TRUE, handed |-> TRUE]
    ELSE IF Len(ch.buf) < ch.cap
        THEN [ch |-> [ch EXCEPT !.buf = Append(ch.buf, v)], done |-> TRUE, handed |-> FALSE]
    ELSE [ch |-> ch, done |-> FALSE, handed |-> FALSE]

\* the goroutines around a State: its producer (idle, sent, or blocked in
\* the send, what it sends, and what it found when it began to send: whether
\* the table held the State and where the long-poll request was), the
\* long-poll request for its key (none, notfound, waiting to receive, or got,
\* from which State and what), and whether Done was called
NoUser == [prod |-> "idle", sent |-> 0, sentIn |-> "none", sentRcv |-> "none",
           rcv |-> "none", from |-> 0, got |-> 0, done |-> FALSE]

\* no purge has run
NoPurge == [ran |-> FALSE, at |-> 0, before |-> <<>>, after |-> <<>>]

\* the package after init: an empty table
PollIdle == [now |-> 0, s |-> <<>>, heap |-> <<>>, user |-> <<>>, gone |-> <<>>,
             purge |-> NoPurge]

(***************************************************************************)
(* package jld                                                             *)
(***************************************************************************)

(***************************************************************************)
(* A Go interface{} value is its dynamic type (kind) and what it holds: a   *)
(* number (num; a bool holds 0 or 1), a text, the items of a slice or the  *)
(* fields of a map, by key.  A nil slice and an empty one are both <<>>.   *)
(***************************************************************************)

\* the dynamic types in use
KindString == "string"
KindSlice == "[]interface{}"
KindMap == "map[string]interface{}"

\* the nil interface value
Nil == [kind |-> "nil", num |-> 0, text |-> "", items |-> <<>>, fields |-> <<>>]

Num(kind, n) == [Nil EXCEPT !.kind = kind, !.num = n]
Str(text) == [Nil EXCEPT !.kind = KindString, !.text = text]
Slice(xs) == [Nil EXCEPT !.kind = KindSlice, !.items = xs]
Map(m) == [Nil EXCEPT !.kind = KindMap, !.fields = m]

\* input.(map[string]interface{}) succeeds
IsMap(input) == input.kind = KindMap

\* lines 38-40, 47-49: a TypeID and a PropID hold a URI
TypeID(uri) == [uri |-> uri]
PropID(uri) == [uri |-> uri]

\* line 23: the @type PropID
TypeP == PropID("@type")

\* a NewV that keeps a float32 as a float64 (the variant C26 is tested
\* against)
NewVWidening(t, v) ==
    ("@type" :> Str(t.uri)) @@
    ("@value" :> IF v.kind = "float32" THEN [v EXCEPT !.kind = "float64"]
                 ELSE IF v.kind \in {"bool", "int", "float64", "string"} THEN v
                 ELSE Nil)

\* lines 141-151: the typed value object
NewV(t, v) ==
    ("@type" :> Str(t.uri)) @@
    ("@value" :> IF v.kind \in {"bool", "int", "float32", "float64", "string"} THEN v
                 ELSE Nil)

\* lines 306-336: the property as a slice, whether it was found, and the
\* input as the call leaves it (a singleton is replaced by its slice)
GetSet(input, propID) ==
    IF ~IsMap(input) THEN [slice |-> <<>>, ok |-> FALSE, input |-> input]
    ELSE IF propID.uri \notin DOMAIN input.fields
        THEN [slice |-> <<>>, ok |-> FALSE, input |-> input]
    ELSE LET propI == input.fields[propID.uri]
         IN  CASE propI.kind = KindSlice -> [slice |-> propI.items, ok |-> TRUE, input |-> input]
               [] propI.kind = "nil" -> [slice |-> <<>>, ok |-> TRUE, input |-> input]
               [] OTHER ->
                    [slice |-> <<propI>>, ok |-> TRUE,
                     input |-> Map([input.fields EXCEPT ![propID.uri] = Slice(<<propI>>)])]

\* lines 342-383: the @list of a list property as a slice, whether it was
\* found, and the input as the call leaves it
GetList(input, propID) ==
    IF ~IsMap(input) THEN [slice |-> <<>>, ok |-> FALSE, input |-> input]
    ELSE IF propID.uri \notin DOMAIN input.fields
        THEN [slice |-> <<>>, ok |-> FALSE, input |-> input]
    ELSE LET listI == input.fields[propID.uri]
         IN  IF ~IsMap(listI) THEN [slice |-> <<>>, ok |-> FALSE, input |-> input]
             ELSE IF "@list" \notin DOMAIN listI.fields
                 THEN [slice |-> <<>>, ok |-> FALSE, input |-> input]
             ELSE LET listVI == listI.fields["@list"]
                  IN  CASE listVI.kind = KindSlice ->
                             [slice |-> listVI.items, ok |-> TRUE, input |-> input]
                        [] listVI.kind = "nil" ->
                             [slice |-> <<>>, ok |-> TRUE, input |-> input]
                        [] OTHER ->
                             [slice |-> <<listVI>>, ok |-> TRUE,
                              input |-> Map([input.fields EXCEPT
                                  ![propID.uri] =
                                      Map([listI.fields EXCEPT !["@list"] = Slice(<<listVI>>)])])]

\* no error
NoErr == ""

\* set[i] = x: the slice with x at index i, or a panic when i is not below
\* len(set)
IndexAssign(set, i, x) ==
    IF i < Len(set) THEN [panicked |-> FALSE, set |-> [set EXCEPT ![i + 1] = x]]
    ELSE [panicked |-> TRUE, set |-> set]

\* lines 754-771: the error returned, whether the call panicked, and the
\* input as the call leaves it
AddType(input, t) ==
    IF ~IsMap(input) THEN [err |-> "Bad Node", panicked |-> FALSE, input |-> input]
    ELSE LET r == GetSet(input, TypeP)
         IN  IF ~r.ok THEN [err |-> "Bad Node @type", panicked |-> FALSE, input |-> r.input]
             ELSE LET a == IndexAssign(r.slice, Len(r.slice), Str(t.uri))
                  IN  IF a.panicked THEN [err |-> NoErr, panicked |-> TRUE, input |-> r.input]
                      ELSE [err |-> NoErr, panicked |-> FALSE,
                            input |-> Map([r.input.fields EXCEPT ![TypeP.uri] = Slice(a.set)])]

\* lines 776-804: jld.Append: the slice and the error returned, and the
\* input as the call leaves it
JldAppend(input, propID, items) ==
    IF ~IsMap(input) THEN [slice |-> <<>>, err |-> "Bad Node", input |-> input]
    ELSE LET set == GetSet(input, propID)
             list == GetList(set.input, propID)
         IN  IF set.ok
             THEN [slice |-> set.slice \o items, err |-> NoErr,
                   input |-> Map([set.input.fields EXCEPT
                                     ![propID.uri] = Slice(set.slice \o items)])]
             ELSE IF list.ok
             THEN [slice |-> list.slice \o items, err |-> NoErr,
                   input |-> Map([list.input.fields EXCEPT
                       ![propID.uri] = Map([list.input.fields[propID.uri].fields EXCEPT
                                               !["@list"] = Slice(list.slice \o items)])])]
             ELSE [slice |-> <<>>, err |-> "Bad Node", input |-> list.input]

\* no jld function was called
JldIdle == [op |-> "none"]

\* the relying party has started and has served nothing yet
(***************************************************************************)
(* package poll: the States table under its mutex, statement by statement  *)
(***************************************************************************)

\* the keys of the States, and the goroutines that call the table: two that
\* serve HTTP requests or produce results, and purgeTicker
TableKeys == {1, 2}
Handlers == {1, 2}
Ticker == 3
Goroutines == Handlers \cup {Ticker}

\* a key the map does not hold, and the map make() returns
NoEntry == [present |-> FALSE, created |-> 0]
EmptyMap == [k \in TableKeys |-> NoEntry]

\* a goroutine outside the table's methods
IdleOp == [op |-> "none", pc |-> "idle", key |-> 0, state |-> NoEntry, ok |-> FALSE,
           todo |-> {}, snap |-> EmptyMap, at |-> 0]

\* newStates: an unlocked mutex (m = 0, otherwise the goroutine that locked
\* it) and an empty map
TableIdle == [now |-> 0, m |-> 0, s |-> EmptyMap, g |-> [i \in Goroutines |-> IdleOp]]

\* ss.m.Lock() returns at once for every caller (the variant C37 is tested
\* against)
CanLockAlways(t) == TRUE

\* ss.m.Lock() returns only when the mutex is unlocked
CanLock(t) == t.m = 0

\* time.Now().After(state.created.Add(time.Hour))
Abandoned(entry, now) == entry.present /\ now > entry.created + Hour

\* the statement of the method between Lock and return, for the goroutine i
\* and, in purgeAbandonedStates, the key k the range delivers next
MapAccess(t, i, k) ==
    LET o == t.g[i]
        done(o1) == [o1 EXCEPT !.pc = "Unlock"]
    IN  CASE o.op = "addState" ->
                [t EXCEPT !.s[o.key] = o.state, !.g[i] = done(o)]
          [] o.op = "GetState" ->
                [t EXCEPT !.g[i] = done([o EXCEPT !.state = t.s[o.key],
                                                  !.ok = t.s[o.key].present])]
          [] o.op = "delState" ->
                [t EXCEPT !.s[o.key] = NoEntry, !.g[i] = done(o)]
          [] o.op = "purgeAbandonedStates" ->
                IF o.todo = {} THEN [t EXCEPT !.g[i] = done(o)]
                ELSE [t EXCEPT !.s[k] = IF Abandoned(t.s[k], t.now) THEN NoEntry ELSE @,
                               !.g[i].todo = @ \ {k}]

(***************************************************************************)
(* package log: log/log.go, where Logger() returns the *golog.Logger, and   *)
(* the package log with the type LoggerT, where Logger() returns the        *)
(* *LoggerT that holds the *golog.Logger                                    *)
(***************************************************************************)

\* a nil *golog.Logger, and golog.New(out, prefix, flag): a logger is told
\* by where it writes, its prefix and its flags
NoLogger == [set |-> FALSE, out |-> "", prefix |-> "", flag |-> 0]
gologNew(out, prefix, flag) == [set |-> TRUE, out |-> out, prefix |-> prefix, flag |-> flag]

\* Config, the choice of logFile: the file os.Create made, os.Stderr when no
\* name was given or os.Create failed
LogFile(logname, createOK) == IF logname # "" /\ createOK THEN logname ELSE "stderr"

\* Config(logname, logprefix, logflg): the logger it assigns (to the package
\* variable in log/log.go, to the field of the LoggerT in the other package)
Config(logname, logprefix, logflg, createOK) ==
    gologNew(LogFile(logname, createOK), logprefix, logflg)

\* log/log.go, Logger(): the package variable afterwards and the handle
\* returned
Logger(logger) ==
    LET l == IF ~logger.set THEN Config("", "", 0, TRUE) ELSE logger
    IN  [logger |-> l, handle |-> l]

\* (l *LoggerT) Println: the field afterwards, which is the logger written
\* with
Println(logger) == IF ~logger.set THEN Config("", "", 0, TRUE) ELSE logger

\* the package log/log.go (logger, the handles Logger() returned, the logger
\* of the last Config the executable called, the logger a handle last wrote
\* with since) and the package with LoggerT (the same, with the field of the
\* one LoggerT and whether Logger() returned the LoggerT)
LogIdle == [logger |-> NoLogger, handles |-> {}, config |-> NoLogger, last |-> NoLogger,
            loggerT |-> NoLogger, handedT |-> FALSE, configT |-> NoLogger, lastT |-> NoLogger]

OidcIdle ==
    /\ config = Flags
    /\ browser = {}
    /\ login = NoLogin
    /\ nLogin = 0
    /\ cb = IdleCallback
    /\ nCb = 0
    /\ opCalls = <<>>
    /\ conc = [b \in Browsers |-> NoFlow]
    /\ proc = Serving
    /\ poll = PollIdle
    /\ jld = JldIdle
    /\ States = TableIdle
    /\ logs = LogIdle

NoCall == [metadata |-> <<>>, data |-> <<>>, nonce |-> <<>>, literal |-> <<>>, err |-> "none"]
NoInput == [literal |-> <<>>, how |-> "none", field |-> 0]
NoResult == [metadata |-> <<>>, data |-> <<>>, err |-> "none"]

AeadInit ==
    /\ OidcIdle
    /\ aeadCipher \in Keys
    /\ encCall = NoCall
    /\ decInput = NoInput
    /\ decResult = NoResult
    /\ hpc = "idle"

\* a caller seals (metadata, data)
CallEncrypt ==
    /\ hpc = "idle"
    /\ \E metadata \in Labels, data \in Payloads, nonce \in Nonces, randOK \in BOOLEAN :
         LET r == Encrypt(aeadCipher, metadata, data, nonce, randOK)
         IN  /\ encCall' = [metadata |-> metadata, data |-> data, nonce |-> nonce,
                            literal |-> r.literal, err |-> r.err]
             /\ hpc' = IF r.err = "nil" THEN "sealed" ELSE "idle"
    /\ UNCHANGED <<aeadCipher, decInput, decResult>>
    /\ UNCHANGED <<oidcVars, libVars>>

\* the literal comes back as it was sealed
PresentIntact ==
    /\ hpc = "sealed"
    /\ decInput' = [literal |-> encCall.literal, how |-> "intact", field |-> 0]
    /\ hpc' = "ready"
    /\ UNCHANGED <<aeadCipher, encCall, decResult>>
    /\ UNCHANGED <<oidcVars, libVars>>

\* the offsets (first, last) of field f (1..3) of a three-field literal
FieldSpan(literal, f) ==
    LET fs == Split(literal, Dot)
        l1 == Len(fs[1])
        l2 == Len(fs[2])
    IN  IF f = 1 THEN <<1, l1>>
        ELSE IF f = 2 THEN <<l1 + 2, l1 + 1 + l2>>
        ELSE <<l1 + l2 + 3, Len(literal)>>

\* the literal comes back with one bit of one character of one field inverted
PresentBitFlip ==
    /\ hpc = "sealed"
    /\ \E f \in 1..3 :
         LET span == FieldSpan(encCall.literal, f)
         IN  \E p \in span[1]..span[2], k \in 0..7 :
               decInput' = [literal |-> SetAt(encCall.literal, p, FlipBit(encCall.literal[p], k)),
                            how |-> "bitflip", field |-> f]
    /\ hpc' = "ready"
    /\ UNCHANGED <<aeadCipher, encCall, decResult>>
    /\ UNCHANGED <<oidcVars, libVars>>

\* the literal comes back cut short: without its last field, or with the
\* last field four characters shorter
PresentCut ==
    /\ hpc = "sealed"
    /\ \E how \in {"dropfield", "shortnonce"} :
         LET fs == Split(encCall.literal, Dot)
             lit == IF how = "dropfield" THEN Join(<<fs[1], fs[2]>>, <<Dot>>)
                    ELSE SubSeq(encCall.literal, 1, Len(encCall.literal) - 4)
         IN  decInput' = [literal |-> lit, how |-> how, field |-> 3]
    /\ hpc' = "ready"
    /\ UNCHANGED <<aeadCipher, encCall, decResult>>
    /\ UNCHANGED <<oidcVars, libVars>>

\* the receiver opens what it was given
CallDecrypt ==
    /\ hpc = "ready"
    /\ decResult' = Decrypt(aeadCipher, decInput.literal)
    /\ hpc' = "opened"
    /\ UNCHANGED <<aeadCipher, encCall, decInput>>
    /\ UNCHANGED <<oidcVars, libVars>>

\* the harness starts over
AeadReset ==
    /\ hpc = "opened"
    /\ encCall' = NoCall
    /\ decInput' = NoInput
    /\ decResult' = NoResult
    /\ hpc' = "idle"
    /\ UNCHANGED aeadCipher
    /\ UNCHANGED <<oidcVars, libVars>>

(***************************************************************************)
(* The relying party: /login and /authn-token requests, and what the       *)
(* browser side and the OP may send                                        *)
(***************************************************************************)

MaxLogins == 1
MaxCallbacks == 2

Methods == {"GET", "POST"}

\* the key the relying party may have made at startup
ServerKeys == {3}

\* uuid.New(): "u1", "u2"
UUIDs == { <<117, 49>>, <<117, 50>> }

\* the clientid and secret query values a /login may carry: none, or "c1"
\* or "a&b", and "s1"
ClientIDParams == { Absent, << <<99, 49>> >>, << <<97, 38, 98>> >> }
SecretParams == { Absent, << <<115, 49>> >> }

\* the secrets an ID token may be signed with
Secrets == { <<115, 48>>, <<115, 49>> }

\* cookies nobody sealed: "", "AAAA.AAAA.AAAA", "!.A.A"
StaticCookies ==
    { <<>>,
      <<65, 65, 65, 65, 46, 65, 65, 65, 65, 46, 65, 65, 65, 65>>,
      <<33, 46, 65, 46, 65>> }

\* a sealed cookie with the last four characters of its nonce field cut off
ShortNonce(cookie) == SubSeq(cookie, 1, Len(cookie) - 4)

\* a sealed cookie with the lowest bit of the first character of its
\* ciphertext field inverted
FlipCiphertext(cookie) ==
    LET p == FieldSpan(cookie, 2)[1]
    IN  SetAt(cookie, p, FlipBit(cookie[p], 0))

\* what a request may carry as authnCookie: nothing, a cookie nobody sealed,
\* a cookie a login set, or such a cookie altered
CookieOffers ==
    {[present |-> FALSE, value |-> <<>>]}
    \cup {[present |-> TRUE, value |-> v] : v \in StaticCookies}
    \cup UNION {{[present |-> TRUE, value |-> b.cookie],
                 [present |-> TRUE, value |-> ShortNonce(b.cookie)],
                 [present |-> TRUE, value |-> FlipCiphertext(b.cookie)]} : b \in browser}

\* the values of the state parameter: none, one, two
StateParams == {Absent} \cup {<<u>> : u \in UUIDs} \cup {<<u, u>> : u \in UUIDs}

\* the values of the error parameter: none, "e", "e" and "f"
ErrorParams == { Absent, << <<101>> >>, << <<101>>, <<102>> >> }

\* the values of error_description and of error_uri, which an OP sends along
\* with error: none or "d d", none or "u:/"
DescriptionParams == { Absent, << <<100, 32, 100>> >> }
URIParams == { Absent, << <<117, 58, 47>> >> }

\* the values of the code parameter: none, "k", "k" and "l"
CodeParams == { Absent, << <<107>> >>, << <<107>>, <<108>> >> }

\* the nonce claim of an ID token: none, a number, a string
NonceClaims ==
    {NoNonceClaim, [type |-> "number", val |-> <<>>]}
    \cup {[type |-> "string", val |-> u] : u \in UUIDs}

\* what the text of a non-empty id_token may turn out to be
Jwts ==
    {[kind |-> "garbage", key |-> <<>>, nonce |-> NoNonceClaim]}
    \cup {[kind |-> "jwt", key |-> k, nonce |-> n] : k \in Secrets, n \in NonceClaims}

\* the bodies of a token response that parse: access_token "" or "t",
\* id_token "" or "j"
TokenRspBodies == {[AccessToken |-> a, IDToken |-> t] : a \in {<<>>, <<116>>}, t \in {<<>>, <<106>>}}

\* the text of the token endpoint's refusal: "denied"
TokenDenied == <<100, 101, 110, 105, 101, 100>>

\* what the token endpoint may answer; the text of an answer is kept where
\* the handler prints it, with the status error
TokenResponses ==
    {[status |-> 500, ctype |-> "application/json", readErr |-> FALSE, json |-> TRUE,
      body |-> ZeroTokenRspBody, text |-> TokenDenied],
     [status |-> 200, ctype |-> "text/html", readErr |-> FALSE, json |-> TRUE,
      body |-> ZeroTokenRspBody, text |-> <<>>],
     [status |-> 200, ctype |-> "application/json", readErr |-> FALSE, json |-> FALSE,
      body |-> ZeroTokenRspBody, text |-> <<>>],
     [status |-> 200, ctype |-> "application/json", readErr |-> TRUE, json |-> FALSE,
      body |-> ZeroTokenRspBody, text |-> <<>>]}
    \cup {[status |-> 200, ctype |-> "application/json", readErr |-> e, json |-> TRUE,
           body |-> b, text |-> <<>>] : e \in BOOLEAN, b \in TokenRspBodies}

\* the userinfo endpoint's bodies: {"sub": "x"} and "no"
UserInfoBody == <<123, 34, 115, 117, 98, 34, 58, 32, 34, 120, 34, 125>>
UserInfoDenied == <<110, 111>>

\* what the userinfo endpoint may answer
UserInfoResponses ==
    {[netOK |-> FALSE, readErr |-> FALSE, status |-> 0, body |-> <<>>],
     [netOK |-> TRUE, readErr |-> TRUE, status |-> 200, body |-> <<>>],
     [netOK |-> TRUE, readErr |-> TRUE, status |-> 401, body |-> <<>>],
     [netOK |-> TRUE, readErr |-> FALSE, status |-> 401, body |-> UserInfoDenied],
     [netOK |-> TRUE, readErr |-> FALSE, status |-> 200, body |-> UserInfoBody]}

\* a pair of a JSON object whose value is a string, and one whose value is a
\* number
StrPair(key, val) == [key |-> key, val |-> val, str |-> TRUE]
NumPair(key, val) == [key |-> key, val |-> val, str |-> FALSE]

HdrAlg == StrPair(<<97, 108, 103>>, <<72, 83, 50, 53, 54>>)
HdrTyp == StrPair(<<116, 121, 112>>, <<74, 87, 84>>)
HdrKid == NumPair(<<107, 105, 100>>, <<55>>)

\* the headers a verified ID token may have, as a range loop may visit them:
\* alg is always there and a string (jwt.Parse took the signing method from it)
Headers == { <<HdrAlg>>, <<HdrAlg, HdrTyp>>, <<HdrTyp, HdrAlg>>, <<HdrAlg, HdrKid>> }

ClaimSub == StrPair(<<115, 117, 98>>, <<97, 108, 105, 99, 101>>)
ClaimExp == NumPair(<<101, 120, 112>>, <<49, 55, 48, 48, 48, 48, 48, 48, 48, 48>>)

\* the claims of an ID token with the given nonce claim, as a range loop may
\* visit them: the nonce alone, or with sub and exp before or after it
ClaimsOf(nonce) ==
    LET n == StrPair(ParamNonce, nonce)
    IN  { <<n>>, <<n, ClaimSub, ClaimExp>>, <<ClaimExp, ClaimSub, n>> }

\* the handler of the last /authn-token request has returned, or there was
\* none yet: the relying party serves one request after the other here
Quiet == cb.pc \in Terminal \cup {"idle"}

\* a /login request is handled; of its clientid and secret the exchange
\* keeps what the handler read
Login ==
    /\ nLogin < MaxLogins
    /\ Quiet
    /\ \E method \in Methods, clientIDs \in ClientIDParams, secrets \in SecretParams,
          oidState \in UUIDs, oidNonce \in UUIDs, gcmNonce \in Nonces, randOK \in BOOLEAN :
         LET r == handleLogin(config, aeadCipher, method, clientIDs, secrets,
                              oidState, oidNonce, gcmNonce, randOK)
         IN  /\ login' = [id |-> nLogin + 1, method |-> method,
                          clientIDs |-> IF method = "GET" THEN clientIDs ELSE Absent,
                          secrets |-> IF method = "GET" THEN secrets ELSE Absent,
                          rsp |-> r.rsp, authnCookieValue |-> r.authnCookieValue]
             /\ browser' = IF r.rsp.status = 303
                           THEN browser \cup {[cookie |-> r.rsp.cookie,
                                               location |-> r.rsp.location]}
                           ELSE browser
    /\ nLogin' = nLogin + 1
    /\ cb' = IdleCallback
    /\ UNCHANGED <<config, aeadCipher, nCb, opCalls>>
    /\ UNCHANGED <<libVars, aeadVars, conc, proc>>

\* a /authn-token request arrives
CbArrive ==
    /\ nCb < MaxCallbacks
    /\ Quiet
    /\ \E method \in Methods :
         cb' = [IdleCallback EXCEPT !.id = nCb + 1, !.pc = "Received", !.last = "Received",
                                    !.method = method]
    /\ nCb' = nCb + 1
    /\ login' = NoLogin
    /\ UNCHANGED <<config, aeadCipher, browser, nLogin, opCalls>>
    /\ UNCHANGED <<libVars, aeadVars, conc, proc>>

CbOpenCookie ==
    /\ cb.pc = "Received"
    /\ \E offer \in CookieOffers : cb' = OpenCookie(cb, aeadCipher, offer.present, offer.value)
    /\ UNCHANGED <<config, aeadCipher, browser, login, nLogin, nCb, opCalls>>
    /\ UNCHANGED <<libVars, aeadVars, conc, proc>>

\* "Other", a label that is not the one oidc seals under, and "x", a payload
\* that is no JSON text
OtherLabel == <<79, 116, 104, 101, 114>>
NotAFlowState == <<120>>

\* envelopes aead.Encrypt makes with the process's cipher for another use
\* than the cookie of handleLogin: a FlowState (State and Nonce "u1") under
\* the label "Other", and "x" under the label "AuthnReqState"
OtherEnvelopes ==
    LET nonce == [i \in 1..NonceSize |-> 7]
        u     == <<117, 49>>
    IN  {Encrypt(aeadCipher, OtherLabel,
                 Marshal(AuthnReqState(config.defaultClientID, config.defaultOpSharedSecret, u, u)),
                 nonce, TRUE).literal,
         Encrypt(aeadCipher, AuthnReqStateLabel, NotAFlowState, nonce, TRUE).literal}

\* the handler is given such an envelope as authnCookie
CbOpenOtherEnvelope ==
    /\ cb.pc = "Received"
    /\ \E value \in OtherEnvelopes : cb' = OpenCookie(cb, aeadCipher, TRUE, value)
    /\ UNCHANGED <<config, aeadCipher, browser, login, nLogin, nCb, opCalls>>
    /\ UNCHANGED <<libVars, aeadVars, conc, proc>>

CbDecodeState ==
    /\ cb.pc = "CookieOpened"
    /\ cb' = DecodeState(cb)
    /\ UNCHANGED <<config, aeadCipher, browser, login, nLogin, nCb, opCalls>>
    /\ UNCHANGED <<libVars, aeadVars, conc, proc>>

CbCheckState ==
    /\ cb.pc = "StateDecoded"
    /\ \E authnRespStates \in StateParams : cb' = CheckState(cb, authnRespStates)
    /\ UNCHANGED <<config, aeadCipher, browser, login, nLogin, nCb, opCalls>>
    /\ UNCHANGED <<libVars, aeadVars, conc, proc>>

CbCheckCode ==
    /\ cb.pc = "StateChecked"
    /\ \E error \in ErrorParams, errorDescription \in DescriptionParams,
          errorURI \in URIParams, authnRespCodes \in CodeParams :
         /\ error = Absent => errorDescription = Absent /\ errorURI = Absent
         /\ cb' = CheckCode(cb, error, errorDescription, errorURI, authnRespCodes)
    /\ UNCHANGED <<config, aeadCipher, browser, login, nLogin, nCb, opCalls>>
    /\ UNCHANGED <<libVars, aeadVars, conc, proc>>

CbSignAssertion ==
    /\ cb.pc = "CodeChecked"
    /\ \E signOK \in BOOLEAN : cb' = SignAssertion(cb, signOK)
    /\ UNCHANGED <<config, aeadCipher, browser, login, nLogin, nCb, opCalls>>
    /\ UNCHANGED <<libVars, aeadVars, conc, proc>>

\* the token request goes out; it comes back answered or fails on the way
CbTokenPost ==
    /\ cb.pc = "AssertionSigned"
    /\ opCalls' = Append(opCalls, TokenRequestForm(cb, config))
    /\ \E netOK \in BOOLEAN : cb' = TokenPost(cb, netOK)
    /\ UNCHANGED <<config, aeadCipher, browser, login, nLogin, nCb>>
    /\ UNCHANGED <<libVars, aeadVars, conc, proc>>

CbParseToken ==
    /\ cb.pc = "TokenExchanged"
    /\ \E t \in TokenResponses : cb' = ParseToken(cb, t.status, t.ctype, t.readErr, t.json, t.body, t.text)
    /\ UNCHANGED <<config, aeadCipher, browser, login, nLogin, nCb, opCalls>>
    /\ UNCHANGED <<libVars, aeadVars, conc, proc>>

CbCheckNonce ==
    /\ cb.pc = "TokenParsed"
    /\ \E jwt \in Jwts : cb' = CheckNonce(cb, jwt)
    /\ UNCHANGED <<config, aeadCipher, browser, login, nLogin, nCb, opCalls>>
    /\ UNCHANGED <<libVars, aeadVars, conc, proc>>

\* the userinfo request goes out unless the access token is empty
CbUserInfo ==
    /\ cb.pc = "NonceChecked"
    /\ opCalls' = IF HasAccessToken(cb) THEN Append(opCalls, UserInfoReq(cb)) ELSE opCalls
    /\ \E u \in UserInfoResponses : cb' = UserInfo(cb, u.netOK, u.readErr, u.status, u.body)
    /\ UNCHANGED <<config, aeadCipher, browser, login, nLogin, nCb>>
    /\ UNCHANGED <<libVars, aeadVars, conc, proc>>

CbRespond ==
    /\ cb.pc = "UserInfoFetched"
    /\ \E header \in Headers, claims \in ClaimsOf(cb.idToken.nonce.val) :
         cb' = Respond(cb, header, claims)
    /\ UNCHANGED <<config, aeadCipher, browser, login, nLogin, nCb, opCalls>>
    /\ UNCHANGED <<libVars, aeadVars, conc, proc>>

(***************************************************************************)
(* Concurrent service.  net/http runs each request's handler in a          *)
(* goroutine of its own, so the handlers of different browsers' requests   *)
(* interleave.  Each browser asks for /login once and then for             *)
(* /authn-token once; a step of a /authn-token handler is the step of the  *)
(* pipeline its request is at.  handleLogin has no blocking call and is    *)
(* one step.                                                               *)
(***************************************************************************)

\* a source of UUIDs that repeats itself (the variant C19 is tested against)
NewRandomRepeats(n) == <<117, 49 + (n % 2)>>

\* uuid.NewRandom().String(): the n-th UUID the process draws, "u1", "u2", ...
\* (no value comes twice)
NewRandom(n) == <<117, 48 + n>>

\* the UUIDs drawn so far: handleLogin draws two, whatever the request
Drawn == 2 * Cardinality({b \in Browsers : conc[b].done})

\* a handler whose authnReqState is a package variable: the state check
\* reads what another request's handler decoded (the variant C16 is tested
\* against)
StepSharedFlowState(c, cipher, x) ==
    LET others == {b \in Browsers : conc[b].cb.id # c.id
                                    /\ conc[b].cb.authnReqState # ZeroAuthnReqState}
        shared == IF others = {} THEN c.authnReqState
                  ELSE conc[CHOOSE b \in others : TRUE].cb.authnReqState
    IN  CASE c.pc = "Received" -> OpenCookie(c, cipher, x.present, x.value)
          [] c.pc = "CookieOpened" -> DecodeState(c)
          [] c.pc = "StateDecoded" -> CheckState([c EXCEPT !.authnReqState = shared], x)
          [] c.pc = "StateChecked" -> CheckCode(c, x.error, x.error_description, x.error_uri, x.code)
          [] c.pc = "CodeChecked" -> SignAssertion(c, x)
          [] c.pc = "AssertionSigned" -> TokenPost(c, x)
          [] c.pc = "TokenExchanged" ->
                ParseToken(c, x.status, x.ctype, x.readErr, x.json, x.body, x.text)
          [] c.pc = "TokenParsed" -> CheckNonce(c, x)
          [] c.pc = "NonceChecked" -> UserInfo(c, x.netOK, x.readErr, x.status, x.body)
          [] c.pc = "UserInfoFetched" -> Respond(c, x.header, x.claims)
          [] OTHER -> c

\* handleAuthnToken from where the request c is, reading x: the step of the
\* pipeline that c.pc selects
Step(c, cipher, x) ==
    CASE c.pc = "Received" -> OpenCookie(c, cipher, x.present, x.value)
      [] c.pc = "CookieOpened" -> DecodeState(c)
      [] c.pc = "StateDecoded" -> CheckState(c, x)
      [] c.pc = "StateChecked" -> CheckCode(c, x.error, x.error_description, x.error_uri, x.code)
      [] c.pc = "CodeChecked" -> SignAssertion(c, x)
      [] c.pc = "AssertionSigned" -> TokenPost(c, x)
      [] c.pc = "TokenExchanged" ->
            ParseToken(c, x.status, x.ctype, x.readErr, x.json, x.body, x.text)
      [] c.pc = "TokenParsed" -> CheckNonce(c, x)
      [] c.pc = "NonceChecked" -> UserInfo(c, x.netOK, x.readErr, x.status, x.body)
      [] c.pc = "UserInfoFetched" -> Respond(c, x.header, x.claims)
      [] OTHER -> c

\* the requests that step sends to the OP
StepCalls(c) ==
    CASE c.pc = "AssertionSigned" -> <<TokenRequestForm(c, config)>>
      [] c.pc = "NonceChecked" /\ HasAccessToken(c) -> <<UserInfoReq(c)>>
      [] OTHER -> <<>>

\* what the step may read, for the request of browser b: the browser's own
\* cookie, a state of some flow, one code, an OP that answers or fails
StepInputs(c, b) ==
    CASE c.pc = "Received" ->
            {[present |-> conc[b].out.rsp.status = 303, value |-> conc[b].out.rsp.cookie]}
      [] c.pc = "CookieOpened" -> {TRUE}
      [] c.pc = "StateDecoded" -> {<<conc[b].in.oidState>>, <<NewRandom(9)>>}
      [] c.pc = "StateChecked" -> {[error |-> Absent, error_description |-> Absent, error_uri |-> Absent,
              code |-> << <<107>> >>]}
      [] c.pc = "CodeChecked" -> {TRUE}
      [] c.pc = "AssertionSigned" -> BOOLEAN
      [] c.pc = "TokenExchanged" ->
            {t \in TokenResponses :
                \/ t.status = 500
                \/ /\ t.status = 200 /\ t.ctype = "application/json" /\ t.json /\ ~t.readErr
                   /\ t.body = [AccessToken |-> <<116>>, IDToken |-> <<106>>]}
      [] c.pc = "TokenParsed" ->
            {[kind |-> "jwt", key |-> k,
              nonce |-> [type |-> "string", val |-> c.authnReqState.Nonce]] : k \in Secrets}
      [] c.pc = "NonceChecked" -> {u \in UserInfoResponses : u.netOK /\ ~u.readErr}
      [] c.pc = "UserInfoFetched" ->
            {[header |-> <<HdrAlg>>, claims |-> <<StrPair(ParamNonce, c.idToken.nonce.val)>>]}
      [] OTHER -> {}

\* browser b asks for /login
ConcLogin(b) ==
    /\ ~conc[b].done
    /\ \E method \in Methods, over \in BOOLEAN :
         LET in == [method |-> method,
                    clientIDs |-> IF over THEN << <<99, 49>> >> ELSE Absent,
                    secrets |-> IF over THEN << <<115, 49>> >> ELSE Absent,
                    oidState |-> NewRandom(Drawn + 1), oidNonce |-> NewRandom(Drawn + 2),
                    gcmNonce |-> [i \in 1..NonceSize |-> 7], randOK |-> TRUE]
         IN  conc' = [conc EXCEPT ![b].done = TRUE, ![b].in = in,
                                  ![b].out = handleLogin(config, aeadCipher, in.method,
                                                 in.clientIDs, in.secrets, in.oidState,
                                                 in.oidNonce, in.gcmNonce, in.randOK)]
    /\ UNCHANGED <<config, aeadCipher, browser, login, nLogin, cb, nCb, opCalls>>
    /\ UNCHANGED <<libVars, aeadVars, proc>>

\* browser b, back from the OP or not, asks for /authn-token
ConcArrive(b) ==
    /\ conc[b].done
    /\ conc[b].cb.pc = "idle"
    /\ conc' = [conc EXCEPT ![b].cb = [IdleCallback EXCEPT !.id = b, !.pc = "Received",
                                                           !.last = "Received",
                                                           !.method = "GET"]]
    /\ UNCHANGED <<config, aeadCipher, browser, login, nLogin, cb, nCb, opCalls>>
    /\ UNCHANGED <<libVars, aeadVars, proc>>

\* the handler of browser b's /authn-token request takes its next step
ConcStep(b) ==
    /\ conc[b].cb.pc \notin Terminal \cup {"idle"}
    /\ \E x \in StepInputs(conc[b].cb, b) :
         conc' = [conc EXCEPT ![b].cb = Step(conc[b].cb, aeadCipher, x),
                              ![b].trace = Append(conc[b].trace, x)]
    /\ opCalls' = opCalls \o StepCalls(conc[b].cb)
    /\ UNCHANGED <<config, aeadCipher, browser, login, nLogin, cb, nCb>>
    /\ UNCHANGED <<libVars, aeadVars, proc>>

(***************************************************************************)
(* Process lifetimes.  A process starts in main, which makes the cipher    *)
(* (oidc.go 412) and returns when that fails (413-415); it ends at any     *)
(* time, and the next instance starts with package variables of its own.   *)
(* What the browser holds, the cookie of its login, outlives the process.  *)
(* main passes no key; the instances here are also started with each kind  *)
(* of key NewAEADCipher may be given.  One browser, one callback per       *)
(* instance.                                                               *)
(***************************************************************************)

\* the processes started, one after the other
MaxInstances == 2

\* main up to line 415
Start ==
    /\ proc.state = "starting"
    /\ \E key \in KeyArgs, generated \in GeneratedKeys, randOK \in BOOLEAN :
         LET r == NewAEADCipher(key, generated, randOK)
         IN  /\ aeadCipher' = r.aeadCipher
             /\ proc' = [proc EXCEPT !.key = key,
                                     !.state = IF r.err = "nil" THEN "serving" ELSE "exited"]
    /\ UNCHANGED <<config, browser, login, nLogin, cb, nCb, opCalls, conc>>
    /\ UNCHANGED <<libVars, aeadVars>>

\* the process ends, its handlers with it, and the next one starts
Restart ==
    /\ proc.state \in {"serving", "exited"}
    /\ proc.instance < MaxInstances
    /\ proc' = [proc EXCEPT !.state = "starting", !.instance = proc.instance + 1,
                            !.key = NilKey]
    /\ aeadCipher' = NilCipher
    /\ conc' = [conc EXCEPT ![1].cb = IdleCallback, ![1].trace = <<>>]
    /\ UNCHANGED <<config, browser, login, nLogin, cb, nCb, opCalls>>
    /\ UNCHANGED <<libVars, aeadVars>>

\* the browser asks the running instance for /login
LifeLogin ==
    /\ proc.state = "serving"
    /\ ~conc[1].done
    /\ LET in == [method |-> "GET", clientIDs |-> Absent, secrets |-> Absent,
                  oidState |-> NewRandom(1), oidNonce |-> NewRandom(2),
                  gcmNonce |-> [i \in 1..NonceSize |-> 7], randOK |-> TRUE]
           out == handleLogin(config, aeadCipher, in.method, in.clientIDs, in.secrets,
                              in.oidState, in.oidNonce, in.gcmNonce, in.randOK)
       IN  /\ conc' = [conc EXCEPT ![1].done = TRUE, ![1].in = in, ![1].out = out]
           /\ proc' = [proc EXCEPT !.sealer = proc.instance]
    /\ UNCHANGED <<config, aeadCipher, browser, login, nLogin, cb, nCb, opCalls>>
    /\ UNCHANGED <<libVars, aeadVars>>

\* the browser asks the running instance for /authn-token
LifeArrive ==
    /\ proc.state = "serving"
    /\ conc[1].done
    /\ conc[1].cb.pc = "idle"
    /\ conc' = [conc EXCEPT ![1].cb = [IdleCallback EXCEPT !.id = proc.instance,
                                                           !.pc = "Received",
                                                           !.last = "Received",
                                                           !.method = "GET"]]
    /\ UNCHANGED <<config, aeadCipher, browser, login, nLogin, cb, nCb, opCalls, proc>>
    /\ UNCHANGED <<libVars, aeadVars>>

\* the handler of that request takes its next step
LifeStep ==
    /\ proc.state = "serving"
    /\ conc[1].cb.pc \notin Terminal \cup {"idle"}
    /\ \E x \in StepInputs(conc[1].cb, 1) :
         conc' = [conc EXCEPT ![1].cb = Step(conc[1].cb, aeadCipher, x),
                              ![1].trace = Append(conc[1].trace, x)]
    /\ opCalls' = opCalls \o StepCalls(conc[1].cb)
    /\ UNCHANGED <<config, aeadCipher, browser, login, nLogin, cb, nCb, proc>>
    /\ UNCHANGED <<libVars, aeadVars>>

(***************************************************************************)
(* One browser, two logins.  The browser keeps one authnCookie for the     *)
(* relying party's host and path: the Set-Cookie of a later login replaces *)
(* the cookie of an earlier one.  conc[1] and conc[2] are the browser's    *)
(* first and second flow; the browser comes back from the OP for a flow    *)
(* with the state of that flow and with the cookie it holds by then.       *)
(***************************************************************************)

\* the flows one browser starts, in order
Flows == Browsers

\* the answer to /login set a cookie
SetCookie(f) == conc[f].done /\ conc[f].out.rsp.status = 303

\* the authnCookie the browser holds: that of its latest login that set one
JarCookie ==
    IF SetCookie(2) THEN [present |-> TRUE, value |-> conc[2].out.rsp.cookie]
    ELSE IF SetCookie(1) THEN [present |-> TRUE, value |-> conc[1].out.rsp.cookie]
    ELSE [present |-> FALSE, value |-> <<>>]

\* the browser asks for /login, for the first or the second time
JarLogin(f) ==
    /\ ~conc[f].done
    /\ f = 1 \/ conc[1].done
    /\ \E method \in Methods, over \in BOOLEAN :
         LET in == [method |-> method,
                    clientIDs |-> IF over THEN << <<99, 49>> >> ELSE Absent,
                    secrets |-> IF over THEN << <<115, 49>> >> ELSE Absent,
                    oidState |-> NewRandom(Drawn + 1), oidNonce |-> NewRandom(Drawn + 2),
                    gcmNonce |-> [i \in 1..NonceSize |-> 7], randOK |-> TRUE]
         IN  conc' = [conc EXCEPT ![f].done = TRUE, ![f].in = in,
                                  ![f].out = handleLogin(config, aeadCipher, in.method,
                                                 in.clientIDs, in.secrets, in.oidState,
                                                 in.oidNonce, in.gcmNonce, in.randOK)]
    /\ UNCHANGED <<config, aeadCipher, browser, login, nLogin, cb, nCb, opCalls>>
    /\ UNCHANGED <<libVars, aeadVars, proc>>

\* the OP sends the browser back for flow f
JarArrive(f) ==
    /\ SetCookie(f)
    /\ conc[f].cb.pc = "idle"
    /\ conc' = [conc EXCEPT ![f].cb = [IdleCallback EXCEPT !.id = f, !.pc = "Received",
                                                           !.last = "Received",
                                                           !.method = "GET"]]
    /\ UNCHANGED <<config, aeadCipher, browser, login, nLogin, cb, nCb, opCalls>>
    /\ UNCHANGED <<libVars, aeadVars, proc>>

\* what a step of flow f's callback reads: the cookie the browser holds, the
\* state of flow f, and for the rest what any callback may read
JarInputs(c, f) ==
    CASE c.pc = "Received" -> {JarCookie}
      [] c.pc = "StateDecoded" -> {<<conc[f].in.oidState>>}
      [] OTHER -> StepInputs(c, f)

\* the handler of flow f's callback takes its next step
JarStep(f) ==
    /\ conc[f].cb.pc \notin Terminal \cup {"idle"}
    /\ \E x \in JarInputs(conc[f].cb, f) :
         conc' = [conc EXCEPT ![f].cb = Step(conc[f].cb, aeadCipher, x),
                              ![f].trace = Append(conc[f].trace, x)]
    /\ opCalls' = opCalls \o StepCalls(conc[f].cb)
    /\ UNCHANGED <<config, aeadCipher, browser, login, nLogin, cb, nCb>>
    /\ UNCHANGED <<libVars, aeadVars, proc>>

(***************************************************************************)
(* package poll at work: requests make States, producers send, long-poll   *)
(* requests look their State up and receive, the ticker's goroutine        *)
(* purges.  The purge may run at any time here, the ticker's hourly runs   *)
(* among them.                                                             *)
(***************************************************************************)

\* the States made, and how far the clock runs
MaxStates == 2
MaxTime == 3

\* what a producer may send
Results == {1, 2}

\* the forms of keyOrPath a long-poll request may use for the State p
PathsOf(p) == {KeyOf(p), BasePath \o KeyOf(p)}

PollOidcUnchanged ==
    /\ UNCHANGED <<config, aeadCipher, browser, login, nLogin, cb, nCb, opCalls, conc, proc>>
    /\ UNCHANGED <<aeadVars, jld, States, logs>>

\* time passes
PollTick ==
    /\ poll.now < MaxTime
    /\ poll' = [poll EXCEPT !.now = poll.now + 1]
    /\ PollOidcUnchanged

\* NewState()
PollNewState ==
    /\ Len(poll.heap) < MaxStates
    /\ LET p == Len(poll.heap) + 1
           state == NewState(KeyOf(p), poll.now)
       IN  poll' = [poll EXCEPT !.heap = Append(poll.heap, state),
                                !.user = Append(poll.user, NoUser),
                                !.gone = Append(poll.gone, "no"),
                                !.s = addState(poll.s, p, state.Key)]
    /\ PollOidcUnchanged

\* States.purgeAbandonedStates()
PollPurge ==
    /\ LET after == purgeAbandonedStates(poll.s, poll.heap, poll.now)
       IN  poll' = [poll EXCEPT
                      !.s = after,
                      !.gone = [q \in DOMAIN poll.gone |->
                                  IF /\ \E k \in DOMAIN poll.s : poll.s[k] = q
                                     /\ ~\E k \in DOMAIN after : after[k] = q
                                  THEN "purge" ELSE poll.gone[q]],
                      !.purge = [ran |-> TRUE, at |-> poll.now,
                                 before |-> poll.s, after |-> after]]
    /\ PollOidcUnchanged

\* the State's Done()
PollDone(p) ==
    /\ p \in DOMAIN poll.heap
    /\ ~poll.user[p].done
    /\ LET after == delState(poll.s, poll.heap[p].Key)
       IN  poll' = [poll EXCEPT
                      !.s = after,
                      !.user[p].done = TRUE,
                      !.gone = [q \in DOMAIN poll.gone |->
                                  IF /\ \E k \in DOMAIN poll.s : poll.s[k] = q
                                     /\ ~\E k \in DOMAIN after : after[k] = q
                                  THEN "done" ELSE poll.gone[q]]]
    /\ PollOidcUnchanged

\* the producer of the State p sends its result on p's channel
PollSend(p) ==
    /\ p \in DOMAIN poll.heap
    /\ poll.user[p].prod = "idle"
    /\ \E v \in Results :
         LET waiting == {q \in DOMAIN poll.user :
                            poll.user[q].rcv = "waiting" /\ poll.user[q].from = p}
             r == ChanSend(poll.heap[p].C, v, waiting # {})
             w == CHOOSE x \in waiting : TRUE
             u1 == [poll.user EXCEPT ![p].prod = IF r.done THEN "sent" ELSE "blocked",
                                     ![p].sent = v,
                                     ![p].sentIn = poll.gone[p],
                                     ![p].sentRcv = poll.user[p].rcv]
         IN  poll' = [poll EXCEPT
                        !.heap[p].C = r.ch,
                        !.user = IF r.handed
                                 THEN [u1 EXCEPT ![w].rcv = "got", ![w].got = v]
                                 ELSE u1]
    /\ PollOidcUnchanged

\* the long-poll request for the State p arrives: GetState, then the receive
PollLongPoll(p) ==
    /\ p \in DOMAIN poll.heap
    /\ poll.user[p].rcv = "none"
    /\ \E keyOrPath \in PathsOf(p) :
         LET r == GetState(poll.s, keyOrPath)
         IN  poll' = [poll EXCEPT !.user[p].rcv = IF r.ok THEN "waiting" ELSE "notfound",
                                  !.user[p].from = r.state]
    /\ PollOidcUnchanged

\* a waiting long-poll request receives: what is in the buffer, or what a
\* blocked producer holds out
PollReceive(p) ==
    /\ p \in DOMAIN poll.heap
    /\ poll.user[p].rcv = "waiting"
    /\ LET f == poll.user[p].from
           ch == poll.heap[f].C
       IN  \/ /\ ch.buf # <<>>
              /\ poll' = [poll EXCEPT !.user[p].rcv = "got", !.user[p].got = Head(ch.buf),
                                      !.heap[f].C.buf = Tail(ch.buf)]
           \/ /\ ch.buf = <<>>
              /\ poll.user[f].prod = "blocked"
              /\ poll' = [poll EXCEPT !.user[p].rcv = "got",
                                      !.user[p].got = poll.user[f].sent,
                                      !.user[f].prod = "sent"]
    /\ PollOidcUnchanged

(***************************************************************************)
(* package jld at work: a caller calls NewV, AddType and Append, one call  *)
(* after the other, with values of its own choice.                         *)
(***************************************************************************)

\* the TypeIDs and PropIDs of the caller
TypeIDs == {TypeID("type"), TypeID("b#T")}
PropP == PropID("b#p")
PropQ == PropID("b#q")

\* the values a caller may pass to NewV: one of each kind the switch names,
\* nil, and kinds it does not name
Scalars == {Num("bool", 1), Num("bool", 0), Num("int", 1), Num("float32", 1),
            Num("float64", 1), Str("value"), Str("")}
Others == {Nil, [Nil EXCEPT !.kind = "[]int", !.items = <<Num("int", 1), Num("int", 2)>>],
           Num("int64", 1), Num("uint8", 1), Slice(<<Str("a")>>), Map(<<>>)}

\* what a property may hold: nothing of the kind, nil, a singleton, a set, a
\* list object with a slice, with a singleton, with nil, and a map that is
\* no list object
PropValues == {Nil, Str("a"), Slice(<<>>), Slice(<<Str("a")>>), Slice(<<Str("a"), Str("b")>>),
               Map("@list" :> Slice(<<Str("a"), Str("b")>>)), Map("@list" :> Slice(<<>>)),
               Map("@list" :> Str("a")), Map("@list" :> Nil), Map("@id" :> Str("n"))}

\* the inputs of AddType and Append: nodes with and without the property,
\* and values that are no node
NodesWith(uri) == {Map(uri :> v) : v \in PropValues}
                     \cup {Map((uri :> v) @@ ("@id" :> Str("n"))) : v \in PropValues}
Inputs(uri) == NodesWith(uri) \cup {Map(<<>>), Map("@id" :> Str("n")), Str("n"), Nil,
                                    Slice(<<Str("a")>>)}

\* the items of a call of Append
ItemLists == {<<>>, <<Str("x")>>, <<Str("x"), Str("y")>>, <<Str("a")>>}

JldOidcUnchanged ==
    /\ UNCHANGED <<config, aeadCipher, browser, login, nLogin, cb, nCb, opCalls, conc, proc>>
    /\ UNCHANGED <<aeadVars, poll, States, logs>>

\* NewV(t, v)
CallNewV ==
    /\ \E t \in TypeIDs, v \in Scalars \cup Others :
         jld' = [op |-> "NewV", t |-> t, v |-> v, out |-> NewV(t, v)]
    /\ JldOidcUnchanged

\* AddType(input, t)
CallAddType ==
    /\ \E t \in TypeIDs, input \in Inputs(TypeP.uri) :
         jld' = [op |-> "AddType", t |-> t, input |-> input, out |-> AddType(input, t)]
    /\ JldOidcUnchanged

\* Append(input, propID, items...)
CallAppend ==
    /\ \E input \in Inputs(PropP.uri), propID \in {PropP, PropQ}, items \in ItemLists :
         jld' = [op |-> "Append", input |-> input, propID |-> propID, items |-> items,
                 out |-> JldAppend(input, propID, items)]
    /\ JldOidcUnchanged

(***************************************************************************)
(* package poll: goroutines calling the methods of the States table        *)
(***************************************************************************)

TableOidcUnchanged ==
    /\ UNCHANGED <<config, aeadCipher, browser, login, nLogin, cb, nCb, opCalls, conc, proc>>
    /\ UNCHANGED <<aeadVars, poll, jld, logs>>

\* time passes
TableTick ==
    /\ States.now < MaxTime
    /\ States' = [States EXCEPT !.now = @ + 1]
    /\ TableOidcUnchanged

\* a goroutine calls a method: a handler or producer addState (through
\* NewState, with the State it made), GetState (with the key it split off
\* the path) or delState (through Done); purgeTicker purgeAbandonedStates
TableCall(i) ==
    /\ States.g[i].pc = "idle"
    /\ \/ /\ i \in Handlers
          /\ \E op \in {"addState", "GetState", "delState"}, key \in TableKeys :
                States' = [States EXCEPT !.g[i] =
                             [IdleOp EXCEPT !.op = op, !.pc = "Lock", !.key = key,
                                            !.state = IF op = "addState"
                                                      THEN [present |-> TRUE,
                                                            created |-> States.now]
                                                      ELSE NoEntry]]
       \/ /\ i = Ticker
          /\ States' = [States EXCEPT !.g[i] =
                          [IdleOp EXCEPT !.op = "purgeAbandonedStates", !.pc = "Lock"]]
    /\ TableOidcUnchanged

\* ss.m.Lock()
TableLock(i) ==
    /\ States.g[i].pc = "Lock"
    /\ CanLock(States)
    /\ States' = [States EXCEPT !.m = i,
                              !.g[i] = [@ EXCEPT !.pc = "Access", !.snap = States.s,
                                                 !.at = States.now,
                                                 !.todo = {k \in TableKeys : States.s[k].present}]]
    /\ TableOidcUnchanged

\* the statements on the map
TableAccess(i) ==
    /\ States.g[i].pc = "Access"
    /\ \/ /\ States.g[i].todo = {}
          /\ States' = MapAccess(States, i, 0)
       \/ \E k \in States.g[i].todo : States' = MapAccess(States, i, k)
    /\ TableOidcUnchanged

\* return: the deferred ss.m.Unlock()
TableUnlock(i) ==
    /\ States.g[i].pc = "Unlock"
    /\ States' = [States EXCEPT !.m = 0, !.g[i] = IdleOp]
    /\ TableOidcUnchanged

(***************************************************************************)
(* package log under an executable and the packages it imports             *)
(***************************************************************************)

\* the Config calls of an executable: no file; -log f -logprefix p -logflg 3,
\* with f created or not
ConfigCalls ==
    {[logname |-> "", logprefix |-> "", logflg |-> 0, createOK |-> TRUE],
     [logname |-> "f", logprefix |-> "p", logflg |-> 3, createOK |-> TRUE],
     [logname |-> "f", logprefix |-> "p", logflg |-> 3, createOK |-> FALSE]}

LogOidcUnchanged ==
    /\ UNCHANGED <<config, aeadCipher, browser, login, nLogin, cb, nCb, opCalls, conc, proc>>
    /\ UNCHANGED <<aeadVars, poll, jld, States>>

\* log/log.go: the executable calls Config
LogConfig ==
    /\ \E c \in ConfigCalls :
          LET l == Config(c.logname, c.logprefix, c.logflg, c.createOK)
          IN  logs' = [logs EXCEPT !.logger = l, !.config = l, !.last = NoLogger]
    /\ LogOidcUnchanged

\* log/log.go: a package or the executable calls Logger() and keeps the handle
LogLogger ==
    /\ LET r == Logger(logs.logger)
       IN  logs' = [logs EXCEPT !.logger = r.logger, !.handles = @ \cup {r.handle}]
    /\ LogOidcUnchanged

\* log/log.go: a handle is written with
LogPrintln ==
    /\ \E h \in logs.handles : logs' = [logs EXCEPT !.last = h]
    /\ LogOidcUnchanged

\* LoggerT: the executable calls Config
LogConfigT ==
    /\ \E c \in ConfigCalls :
          LET l == Config(c.logname, c.logprefix, c.logflg, c.createOK)
          IN  logs' = [logs EXCEPT !.loggerT = l, !.configT = l, !.lastT = NoLogger]
    /\ LogOidcUnchanged

\* LoggerT: a package or the executable calls Logger() and keeps the handle
LogLoggerT ==
    /\ logs' = [logs EXCEPT !.handedT = TRUE]
    /\ LogOidcUnchanged

\* LoggerT: the handle is written with
LogPrintlnT ==
    /\ logs.handedT
    /\ logs' = [logs EXCEPT !.loggerT = Println(@), !.lastT = Println(logs.loggerT)]
    /\ LogOidcUnchanged

vars == <<aeadCipher, aeadVars, oidcVars, libVars>>

Init ==
    /\ OidcIdle
    /\ aeadCipher \in ServerKeys
    /\ encCall = NoCall
    /\ decInput = NoInput
    /\ decResult = NoResult
    /\ hpc = "idle"

Next ==
    \/ Login
    \/ CbArrive
    \/ CbOpenCookie
    \/ CbDecodeState
    \/ CbCheckState
    \/ CbCheckCode
    \/ CbSignAssertion
    \/ CbTokenPost
    \/ CbParseToken
    \/ CbCheckNonce
    \/ CbUserInfo
    \/ CbRespond

\* the relying party serving /login and /authn-token
Spec == Init /\ [][Next]_vars

LabelNext ==
    \/ Next
    \/ CbOpenOtherEnvelope

\* the relying party whose cipher also seals envelopes that are not the
\* cookie of handleLogin
SpecLabel == Init /\ [][LabelNext]_vars


AeadNext ==
    \/ CallEncrypt
    \/ PresentIntact
    \/ PresentBitFlip
    \/ PresentCut
    \/ CallDecrypt
    \/ AeadReset

\* the codec on its own: Encrypt, a literal on its way back, Decrypt
SpecAead == AeadInit /\ [][AeadNext]_vars

ConcNext ==
    \/ \E b \in Browsers : ConcLogin(b)
    \/ \E b \in Browsers : ConcArrive(b)
    \/ \E b \in Browsers : ConcStep(b)

\* the relying party serving the requests of several browsers at once
SpecConc == Init /\ [][ConcNext]_vars

JarNext ==
    \/ \E f \in Flows : JarLogin(f)
    \/ \E f \in Flows : JarArrive(f)
    \/ \E f \in Flows : JarStep(f)

\* the relying party serving one browser that logs in twice
SpecJar == Init /\ [][JarNext]_vars

PollNext ==
    \/ PollTick
    \/ PollNewState
    \/ PollPurge
    \/ \E p \in 1..MaxStates : PollDone(p)
    \/ \E p \in 1..MaxStates : PollSend(p)
    \/ \E p \in 1..MaxStates : PollLongPoll(p)
    \/ \E p \in 1..MaxStates : PollReceive(p)

\* package poll in a server
SpecPoll == Init /\ [][PollNext]_vars

JldNext ==
    \/ CallNewV
    \/ CallAddType
    \/ CallAppend

\* package jld under a caller
SpecJld == Init /\ [][JldNext]_vars

MutexNext ==
    \/ TableTick
    \/ \E i \in Goroutines : TableCall(i)
    \/ \E i \in Goroutines : TableLock(i)
    \/ \E i \in Goroutines : TableAccess(i)
    \/ \E i \in Goroutines : TableUnlock(i)

LogNext ==
    \/ LogConfig
    \/ LogLogger
    \/ LogPrintln
    \/ LogConfigT
    \/ LogLoggerT
    \/ LogPrintlnT

\* the two packages log under their callers
SpecLog == Init /\ [][LogNext]_vars

\* the States table called by several goroutines at once
SpecMutex == Init /\ [][MutexNext]_vars

\* the same, with every goroutine that is inside a method going on running
SpecMutexFair ==
    /\ SpecMutex
    /\ \A i \in Goroutines : WF_vars(TableAccess(i)) /\ WF_vars(TableUnlock(i))

\* the first process is about to run main
LifeInit ==
    /\ config = Flags
    /\ browser = {}
    /\ login = NoLogin
    /\ nLogin = 0
    /\ cb = IdleCallback
    /\ nCb = 0
    /\ opCalls = <<>>
    /\ conc = [b \in Browsers |-> NoFlow]
    /\ proc = [Serving EXCEPT !.state = "starting"]
    /\ poll = PollIdle
    /\ jld = JldIdle
    /\ States = TableIdle
    /\ logs = LogIdle
    /\ aeadCipher = NilCipher
    /\ encCall = NoCall
    /\ decInput = NoInput
    /\ decResult = NoResult
    /\ hpc = "idle"

LifeNext ==
    \/ Start
    \/ Restart
    \/ LifeLogin
    \/ LifeArrive
    \/ LifeStep

\* the relying party over the lifetimes of its processes
SpecLifetime == LifeInit /\ [][LifeNext]_vars

(***************************************************************************)
(* The codec's claims                                                      *)
(***************************************************************************)

\* the bytes the three fields of a literal decode to, when it has three
\* fields and each decodes
Decoding(literal) ==
    LET fs == Split(literal, Dot)
    IN  IF Len(fs) # 3 THEN [ok |-> FALSE, fields |-> <<>>]
        ELSE LET d == [i \in 1..3 |-> URLDecodeString(fs[i])]
             IN  IF d[1].ok /\ d[2].ok /\ d[3].ok
                 THEN [ok |-> TRUE, fields |-> <<d[1].bytes, d[2].bytes, d[3].bytes>>]
                 ELSE [ok |-> FALSE, fields |-> <<>>]

\* what Encrypt handed to the AEAD: label, ciphertext and nonce as bytes
SealedFields ==
    << encCall.metadata,
       Seal(aeadCipher, encCall.nonce, encCall.data, encCall.metadata),
       encCall.nonce >>

Tampered == hpc = "opened" /\ decInput.how = "bitflip" /\ decInput.field \in {1, 2}

\* C6 (as claimed): a literal that comes back as Encrypt wrote it opens to
\* exactly the (label, payload) that were sealed, without error.
C6_RoundTrip ==
    (hpc = "opened" /\ decInput.how = "intact") =>
        decResult = [metadata |-> encCall.metadata, data |-> encCall.data, err |-> "nil"]

\* C7 (as claimed): one inverted bit in the label field or in the ciphertext
\* field makes Decrypt fail with an authentication error.
C7_TamperIsAuthError ==
    Tampered => decResult.err = "auth"

\* C7 (amended): after one inverted bit in the label field or in the
\* ciphertext field, Decrypt either fails (the literal no longer splits into
\* three fields, a field no longer decodes, or the tag does not authenticate)
\* and returns nothing, or the literal still decodes to the very bytes that
\* were sealed and Decrypt returns the sealed label and payload unchanged;
\* whenever the decoded label or ciphertext differs from the sealed one the
\* failure is an authentication error.
C7_TamperDetected ==
    Tampered =>
        LET dec == Decoding(decInput.literal)
        IN  /\ decResult.err \in {"nil", "format", "encoding", "auth"}
            /\ decResult.err = "nil" =>
                  /\ dec.ok /\ dec.fields = SealedFields
                  /\ decResult.metadata = encCall.metadata
                  /\ decResult.data = encCall.data
            /\ decResult.err # "nil" =>
                  decResult.metadata = <<>> /\ decResult.data = <<>>
            /\ (dec.ok /\ dec.fields # SealedFields) => decResult.err = "auth"

\* C7 witness: a bit of the label field was inverted, the literal still
\* decoded, and Decrypt refused it as not authentic
C7_Witness ==
    /\ Tampered /\ decInput.field = 1
    /\ Decoding(decInput.literal).ok
    /\ decResult.err = "auth"

\* C9 (as claimed): Decrypt returns either an authenticated (label, payload)
\* without error, or an error together with an empty label and an empty
\* payload.
C9_NoPartialData ==
    hpc = "opened" =>
        \/ /\ decResult.err = "nil"
           /\ Decoding(decInput.literal).ok
           /\ Decoding(decInput.literal).fields = SealedFields
        \/ /\ decResult.err \in {"format", "encoding", "auth"}
           /\ decResult.metadata = <<>>
           /\ decResult.data = <<>>

(***************************************************************************)
(* The relying party's claims                                              *)
(***************************************************************************)

\* the positions in opCalls of the requests sent for callback id
CallsOf(id) == {i \in DOMAIN opCalls : opCalls[i].req = id}
TokenCalls == {i \in DOMAIN opCalls : opCalls[i].endpoint = "token"}
UserInfoCalls == {i \in DOMAIN opCalls : opCalls[i].endpoint = "userinfo"}

\* the cookie the callback carried was read and opens under the cipher
Opens(c) ==
    c.cookie.read /\ c.cookie.present /\ Decrypt(aeadCipher, c.cookie.value).err = "nil"

\* the FlowState sealed in a cookie that opens
FlowStateOf(cookie) == Unmarshal(Decrypt(aeadCipher, cookie).data)

\* the request was answered 400 and nothing else happened for it
Rejected400(c) == c.pc = "Rejected" /\ c.rsp.status = 400

\* the state parameter was read and is absent, repeated or not the State of
\* the cookie's FlowState
BadStateParam(c) ==
    /\ c.state.read
    /\ \/ c.state.vals = Absent
       \/ Len(c.state.vals) # 1
       \/ c.state.vals[1] # FlowStateOf(c.cookie.value).State

\* C1: a callback whose cookie opens and whose state parameter is absent,
\* repeated or different from the State in the cookie's FlowState is rejected
\* with 400, and no request was sent to the OP for it.
C1_CSRFEnforced ==
    (Opens(cb) /\ BadStateParam(cb)) =>
        Rejected400(cb) /\ CallsOf(cb.id) = {}

\* C1 witness: the cookie opened, one state value came with the request, it
\* was not the cookie's State, and the request was rejected
C1_Witness ==
    /\ Opens(cb) /\ cb.state.read /\ Len(cb.state.vals) = 1
    /\ cb.state.vals[1] # FlowStateOf(cb.cookie.value).State
    /\ Rejected400(cb)

\* C2 (as claimed): a callback whose verified ID token carries a nonce claim
\* that is not the Nonce of the cookie's FlowState is rejected with 400, no
\* userinfo request is sent for it and it is not answered 200.
C2_NonceBinding ==
    (/\ cb.idToken.parsed
     /\ cb.idToken.nonce.type # "missing"
     /\ \/ cb.idToken.nonce.type # "string"
        \/ cb.idToken.nonce.val # FlowStateOf(cb.cookie.value).Nonce) =>
        /\ Rejected400(cb)
        /\ CallsOf(cb.id) \cap UserInfoCalls = {}

\* a step of the pipeline has failed, as far as the request's record tells
FailedStep(c) ==
    \/ c.cookie.read /\ ~Opens(c)
    \/ BadStateParam(c)
    \/ c.error.read /\ c.error.vals # Absent
    \/ c.code.read /\ Len(c.code.vals) # 1
    \/ c.tokenRsp.read /\ \/ c.tokenRsp.status # 200
                          \/ c.tokenRsp.ctype # "application/json"
                          \/ c.tokenRsp.readErr
                          \/ ~c.tokenRsp.json
    \/ c.idToken.parsed /\ \/ c.idToken.nonce.type # "string"
                           \/ c.idToken.nonce.val # c.authnReqState.Nonce
    \/ c.userInfoRsp.read /\ (c.userInfoRsp.readErr \/ c.userInfoRsp.status # 200)
    \/ c.pc = "Panicked"

\* C3 (as claimed): once a step of a callback has failed the request is
\* rejected, and a userinfo request is sent for a callback only after its
\* token request, with the token response accepted, the ID token verified and
\* the nonce matched.
C3_LinearPipeline ==
    /\ FailedStep(cb) => Rejected400(cb)
    /\ \A i \in CallsOf(cb.id) \cap UserInfoCalls :
          /\ \E j \in CallsOf(cb.id) \cap TokenCalls : j < i
          /\ cb.tokenRsp.read /\ cb.tokenRsp.status = 200 /\ cb.tokenRsp.json
          /\ ~cb.tokenRsp.readErr
          /\ cb.idToken.parsed
          /\ cb.idToken.nonce = [type |-> "string", val |-> cb.authnReqState.Nonce]

\* C4 (as claimed): a callback without authnCookie, or with one that does not
\* open, is answered 400 and no request is sent to the OP for it.
C4_MissingCookieIs400 ==
    (cb.cookie.read /\ ~Opens(cb)) =>
        Rejected400(cb) /\ CallsOf(cb.id) = {}

C10_PartialOverrideRejected ==
    (/\ login.id # 0
     /\ login.method = "GET"
     /\ (login.clientIDs = Absent) # (login.secrets = Absent)) =>
        /\ login.rsp.status = 400
        /\ ~login.rsp.location.set
        /\ login.rsp.cookie = <<>>
        /\ login.authnCookieValue = <<>>
        /\ \A b \in browser : b.cookie # login.authnCookieValue

\* C10 witness: a GET /login with a secret and no clientid was answered 400
C10_Witness ==
    /\ login.id # 0 /\ login.method = "GET"
    /\ login.clientIDs = Absent /\ login.secrets # Absent
    /\ login.rsp.status = 400

\* the FlowState in the cookie a /login set, as the cipher opens it
SealedAt(rsp) == Decrypt(aeadCipher, rsp.cookie)

\* t begins with prefix
HasPrefix(t, prefix) == Len(t) >= Len(prefix) /\ SubSeq(t, 1, Len(prefix)) = prefix

\* C11 (as claimed): a /login answered 303 has a Location on the OP's
\* authorization endpoint and a cookie that opens, under the label
\* "AuthnReqState", to a FlowState whose State, Nonce and ClientID are the
\* state, nonce and client_id parameters of the Location's query; without an
\* override the ClientID is the configured default.
C11_LoginBinding ==
    login.rsp.status = 303 =>
        LET sealed == SealedAt(login.rsp)
            flow == Unmarshal(sealed.data)
            url == login.rsp.location.url
        IN  /\ login.method = "GET"
            /\ login.rsp.location.set
            /\ HasPrefix(url, opAuthnEndpoint(config) \o <<63>>)
            /\ sealed.err = "nil"
            /\ sealed.metadata = AuthnReqStateLabel
            /\ QueryValues(url, ParamState) = <<flow.State>>
            /\ QueryValues(url, ParamNonce) = <<flow.Nonce>>
            /\ QueryValues(url, ParamClientID) = <<flow.ClientID>>
            /\ login.clientIDs = Absent => flow.ClientID = config.defaultClientID

(***************************************************************************)
(* JSON texts: objects, strings and numbers (RFC 8259 without arrays,      *)
(* literals and escapes, which the texts at hand do not use)               *)
(***************************************************************************)

IsWs(c) == c \in {32, 9, 10, 13}
IsDigit(c) == c \in 48..57

\* the first position from i on that holds no white space (Len(t) + 1 when
\* there is none)
SkipWs(t, i) ==
    IF \E j \in i..Len(t) : ~IsWs(t[j])
    THEN CHOOSE j \in i..Len(t) : ~IsWs(t[j]) /\ \A k \in i..(j - 1) : IsWs(t[k])
    ELSE Len(t) + 1

\* the position after the string that starts at i, 0 when none starts there:
\* a '"', characters other than '"', '\' and controls, a '"'
JsonString(t, i) ==
    IF i > Len(t) \/ t[i] # Quote THEN 0
    ELSE IF \E j \in (i + 1)..Len(t) : t[j] = Quote
    THEN LET j == CHOOSE j \in (i + 1)..Len(t) :
                      t[j] = Quote /\ \A k \in (i + 1)..(j - 1) : t[k] # Quote
         IN  IF \A k \in (i + 1)..(j - 1) : t[k] >= 32 /\ t[k] # 92 THEN j + 1 ELSE 0
    ELSE 0

\* the position after the number that starts at i, 0 when none starts there
JsonNumber(t, i) ==
    IF i > Len(t) \/ ~IsDigit(t[i]) THEN 0
    ELSE IF \E j \in i..Len(t) : ~IsDigit(t[j])
    THEN CHOOSE j \in i..Len(t) : ~IsDigit(t[j]) /\ \A k \in i..(j - 1) : IsDigit(t[k])
    ELSE Len(t) + 1

RECURSIVE JsonValue(_, _)
RECURSIVE JsonMembers(_, _)

\* the position after the members and the closing '}' of an object whose
\* first member starts at i, 0 when there is no such text
JsonMembers(t, i) ==
    LET k == JsonString(t, i)
        colon == IF k = 0 THEN 0 ELSE SkipWs(t, k)
        v == IF colon = 0 \/ colon > Len(t) \/ t[colon] # 58 THEN 0
             ELSE JsonValue(t, SkipWs(t, colon + 1))
        after == IF v = 0 THEN 0 ELSE SkipWs(t, v)
    IN  IF after = 0 \/ after > Len(t) THEN 0
        ELSE IF t[after] = 125 THEN after + 1
        ELSE IF t[after] = 44 THEN JsonMembers(t, SkipWs(t, after + 1))
        ELSE 0

\* the position after the value that starts at i, 0 when none starts there
JsonValue(t, i) ==
    IF i > Len(t) THEN 0
    ELSE IF t[i] = Quote THEN JsonString(t, i)
    ELSE IF IsDigit(t[i]) THEN JsonNumber(t, i)
    ELSE IF t[i] = 123 THEN
        LET j == SkipWs(t, i + 1)
        IN  IF j <= Len(t) /\ t[j] = 125 THEN j + 1 ELSE JsonMembers(t, j)
    ELSE 0

\* t is one JSON object and nothing else
IsJsonObject(t) ==
    LET i == SkipWs(t, 1)
        e == IF i <= Len(t) /\ t[i] = 123 THEN JsonValue(t, i) ELSE 0
    IN  e # 0 /\ SkipWs(t, e) = Len(t) + 1

\* the well-formed text of an object with the given pairs
JsonObjectOf(ps) ==
    LET Item(p) == Quoted(p.key) \o <<58, 32>> \o (IF p.str THEN Quoted(p.val) ELSE p.val)
        Sep(i) == IF i = 1 THEN <<>> ELSE <<44, 32>>
        F[i \in 0..Len(ps)] == IF i = 0 THEN <<>> ELSE F[i - 1] \o Sep(i) \o Item(ps[i])
    IN  <<123>> \o F[Len(ps)] \o <<125>>

\* t ends with suffix
HasSuffix(t, suffix) ==
    Len(t) >= Len(suffix) /\ SubSeq(t, Len(t) - Len(suffix) + 1, Len(t)) = suffix

\* the body of a response answered 200
BodyOf(rsp) == IF rsp.args = <<>> THEN <<>> ELSE rsp.args[1]

\* the callback went the whole way with the OP: the userinfo endpoint
\* answered 200 and its body was read, and the handler has come to its end
HappyPathDone(c) ==
    /\ c.userInfoRsp.read /\ c.userInfoRsp.status = 200 /\ ~c.userInfoRsp.readErr
    /\ IsJsonObject(c.userInfoRsp.body)
    /\ c.pc # "UserInfoFetched"

\* C12 (as claimed): a callback with the cookie of a /login, its state, one
\* code, a token response with a verified ID token of the right nonce and an
\* access token, and a userinfo response 200 with a JSON object, is answered
\* 200 with Content-Type application/json (in any letter case) and a body
\* that is one JSON object, made of "idtoken" with the token's header and
\* claims and of "userinfo" with the OP's body as it came.
C12_HappyPath ==
    HappyPathDone(cb) =>
        /\ cb.pc = "Responded"
        /\ cb.rsp.status = 200
        /\ cb.rsp.ctype \in {"application/json", "application/JSON"}
        /\ IsJsonObject(BodyOf(cb.rsp))
        /\ BodyOf(cb.rsp) =
              <<123, 34, 105, 100, 116, 111, 107, 101, 110, 34, 58, 32>>
              \o <<123, 34, 104, 101, 97, 100, 101, 114, 34, 58, 32>> \o JsonObjectOf(cb.idToken.header)
              \o <<44, 32, 34, 99, 108, 97, 105, 109, 115, 34, 58, 32>> \o JsonObjectOf(cb.idToken.claims) \o <<125>>
              \o <<44, 32, 34, 117, 115, 101, 114, 105, 110, 102, 111, 34, 58, 32>> \o cb.userInfoRsp.body \o <<125>>

\* a response as writeError writes it
IsError400(rsp) == rsp.status = 400 /\ rsp.ctype = "text/plain; charset=utf-8"

\* C13 (as claimed): every request ends with one response, the success
\* response (303 for /login, 200 for /authn-token) or a 400 with a plain
\* text; no handler ends in a fault, and a handler that is still at work has
\* written nothing.
C13_AllErrorsAre400 ==
    /\ login.id # 0 => (login.rsp.status = 303 \/ IsError400(login.rsp))
    /\ cb.pc \in Terminal => (cb.rsp.status = 200 \/ IsError400(cb.rsp))
    /\ cb.pc = "Rejected" => IsError400(cb.rsp)
    /\ cb.pc = "Responded" => cb.rsp.status = 200
    /\ cb.pc # "Panicked"
    /\ cb.pc \notin Terminal => cb.rsp = NoResponse

\* C14 (as claimed): a callback whose verified ID token has no nonce claim, or
\* one that is not a string, is rejected with 400.
C14_NonceClaimDecodeError ==
    (cb.idToken.parsed /\ cb.idToken.nonce.type # "string") => Rejected400(cb)

\* s occurs in t
Contains(t, s) ==
    \E i \in 0..(Len(t) - Len(s)) : SubSeq(t, i + 1, i + Len(s)) = s

\* the values a 400 body prints hold neither secret
NoSecretIn(rsp, secrets) ==
    \A i \in 1..Len(rsp.args) : \A s \in secrets \ {<<>>} : ~Contains(rsp.args[i], s)

StartCipher == CHOOSE k \in ServerKeys : TRUE

\* the handler of request c run on its own from the state main left, reading
\* what trace says: the request it ends as, and the requests it sends
RECURSIVE RunAlone(_, _)
RunAlone(c, trace) ==
    IF trace = <<>> THEN c
    ELSE RunAlone(Step(c, StartCipher, Head(trace)), Tail(trace))

RECURSIVE CallsAlone(_, _)
CallsAlone(c, trace) ==
    IF trace = <<>> THEN <<>>
    ELSE StepCalls(c) \o CallsAlone(Step(c, StartCipher, Head(trace)), Tail(trace))

Arrived(b) == [IdleCallback EXCEPT !.id = b, !.pc = "Received", !.last = "Received",
                                   !.method = "GET"]
IsReq(b, call) == call.req = b

TokenPosts(c) == Cardinality(CallsOf(c.id) \cap TokenCalls)
UserInfoGets(c) == Cardinality(CallsOf(c.id) \cap UserInfoCalls)

\* the pipeline states after the token request and after the userinfo request
AfterTokenPost == {"TokenExchanged", "TokenParsed", "NonceChecked", "UserInfoFetched",
                   "Responded"}
AfterUserInfoGet == {"UserInfoFetched", "Responded"}

\* C17: a callback sends one POST to the token endpoint when it gets there
\* and none before, one GET to the userinfo endpoint when it gets there and
\* none before, and no more than that when the call failed on the network or
\* was answered with another status than 200.
C17_NoRetries ==
    /\ TokenPosts(cb) <= 1 /\ UserInfoGets(cb) <= 1
    /\ cb.last \in AfterTokenPost => TokenPosts(cb) = 1
    /\ cb.last \in AfterUserInfoGet => UserInfoGets(cb) = 1
    /\ (cb.pc = "Rejected" /\ cb.rsp.msg = "Token Endpoint Form Post Error") =>
          TokenPosts(cb) = 1 /\ UserInfoGets(cb) = 0
    /\ (cb.tokenRsp.read /\ cb.tokenRsp.status # 200) =>
          cb.pc = "Rejected" /\ TokenPosts(cb) = 1 /\ UserInfoGets(cb) = 0
    /\ (cb.pc = "Rejected" /\ cb.rsp.msg = "User Info Request Failed") =>
          TokenPosts(cb) = 1 /\ UserInfoGets(cb) = 1
    /\ \A id \in 1..nCb :
          /\ Cardinality(CallsOf(id) \cap TokenCalls) <= 1
          /\ Cardinality(CallsOf(id) \cap UserInfoCalls) <= 1

\* C17 happens: the userinfo endpoint refused a callback, which was rejected
\* after one request to each endpoint
C17_Witness ==
    /\ cb.pc = "Rejected"
    /\ cb.userInfoRsp.read /\ cb.userInfoRsp.status = 401
    /\ TokenPosts(cb) = 1 /\ UserInfoGets(cb) = 1

\* the pipeline states of a callback, in order
Pipeline == <<"Received", "CookieOpened", "StateDecoded", "StateChecked", "CodeChecked",
              "AssertionSigned", "TokenExchanged", "TokenParsed", "NonceChecked",
              "UserInfoFetched", "Responded">>

\* a step of one callback request from pipeline state p to q: to the next
\* state of the pipeline, or from a state that is not terminal to Rejected
PipelineStep(p, q) ==
    \/ \E i \in 1..(Len(Pipeline) - 1) : p = Pipeline[i] /\ q = Pipeline[i + 1]
    \/ p \in {Pipeline[i] : i \in 1..(Len(Pipeline) - 1)} /\ q = "Rejected"

\* C18 (as claimed): a callback request starts in Received and each of its
\* steps leads to the next pipeline state or, from a state that is not
\* terminal, to Rejected; nothing leads out of Responded and Rejected.
C18_CallbackStateMachine ==
    [][/\ (cb'.id # cb.id /\ cb'.id # 0) => cb'.pc = "Received"
       /\ (cb'.id = cb.id /\ cb' # cb) => PipelineStep(cb.pc, cb'.pc)]_vars

\* the browsers whose /login was answered with a redirect and a cookie
LoggedIn == {b \in Browsers : conc[b].done /\ conc[b].out.rsp.status = 303}

HeldCookie == conc[1].out.rsp.cookie
HoldsCookie == conc[1].done /\ conc[1].out.rsp.status = 303

\* C20 (as claimed): a process started without a key has made its cipher
\* when main is past the start and serves; the cookie an instance sealed
\* opens under that instance's cipher as long as it runs; a callback that
\* brings a cookie sealed by an earlier instance to an instance that made its
\* own key is answered 400 at the cookie, with no request to the OP.
C20_ProcessLifetimeKey ==
    /\ (proc.state # "starting" /\ proc.key = NilKey) =>
          proc.state = "serving" /\ aeadCipher # NilCipher
    /\ (proc.state = "serving" /\ HoldsCookie /\ proc.sealer = proc.instance) =>
          Decrypt(aeadCipher, HeldCookie).err = "nil"
    /\ (/\ proc.state = "serving" /\ proc.key = NilKey
        /\ HoldsCookie /\ proc.sealer < proc.instance
        /\ conc[1].cb.cookie.read) =>
          /\ conc[1].cb.pc = "Rejected" /\ conc[1].cb.rsp.status = 400
          /\ conc[1].cb.last = "Received"
          /\ CallsOf(proc.instance) = {}

\* C21 (as claimed): NewAEADCipher returns a cipher and no error for no key
\* and for a key of 16, 24 or 32 bytes, and an error and no cipher for a key
\* of another length.
C21_NewAEADCipherKeys ==
    proc.state # "starting" =>
        IF proc.key = NilKey \/ proc.key.len \in {16, 24, 32}
        THEN proc.state = "serving" /\ aeadCipher # NilCipher
        ELSE proc.state = "exited" /\ aeadCipher = NilCipher

\* the callback c has not passed the state check
BeforeStateChecked(c) == c.last \in {"Received", "CookieOpened", "StateDecoded"}

\* the callback of the first flow brought the cookie of the second
Overwritten == /\ SetCookie(1) /\ SetCookie(2)
               /\ conc[1].cb.cookie.read
               /\ conc[1].cb.cookie.value = conc[2].out.rsp.cookie

\* C22: the second login is answered as any login is; a callback of the
\* first flow that brings the second flow's cookie is rejected at the state
\* check as a mismatch, with no request to the OP; a callback that brings
\* the cookie of its own flow passes the state check.
C22_OneFlowPerBrowser ==
    /\ config = Flags /\ aeadCipher = StartCipher
    /\ \A f \in Flows :
          conc[f].done =>
             /\ conc[f].out = handleLogin(Flags, StartCipher, conc[f].in.method,
                                  conc[f].in.clientIDs, conc[f].in.secrets, conc[f].in.oidState,
                                  conc[f].in.oidNonce, conc[f].in.gcmNonce, conc[f].in.randOK)
             /\ conc[f].in.method = "GET" => SetCookie(f)
    /\ Overwritten =>
          /\ BeforeStateChecked(conc[1].cb)
          /\ CallsOf(1) = {}
          /\ conc[1].cb.state.read =>
                /\ Rejected400(conc[1].cb)
                /\ conc[1].cb.rsp.msg = "State match failed"
    /\ \A f \in Flows :
          (/\ conc[f].cb.state.read
           /\ conc[f].cb.cookie.value = conc[f].out.rsp.cookie) =>
             ~BeforeStateChecked(conc[f].cb)

\* C22 happens: the first flow's callback, with the second flow's cookie, was
\* rejected at the state check and the second flow's callback was answered 200
C22_Witness ==
    /\ Overwritten
    /\ conc[1].cb.pc = "Rejected" /\ conc[1].cb.state.read
    /\ conc[2].cb.pc = "Responded"

\* the States a table holds
Held(table) == {table[k] : k \in DOMAIN table}

\* the age of the State p at the time t
Age(p, t) == t - poll.heap[p].created

\* C23: a run of purgeAbandonedStates removes from the table every State
\* made more than one hour before the run and no other State.
C23_PurgeOverOneHour ==
    poll.purge.ran =>
        /\ \A p \in Held(poll.purge.before) :
              p \in Held(poll.purge.after) <=> Age(p, poll.purge.at) <= Hour
        /\ Held(poll.purge.after) \subseteq Held(poll.purge.before)
        /\ \A k \in DOMAIN poll.purge.after : poll.purge.after[k] = poll.purge.before[k]

\* C23 happens: a run found a State older than one hour and a State exactly
\* one hour old, removed the first and kept the second
C23_Witness ==
    /\ poll.purge.ran
    /\ \E p, q \in Held(poll.purge.before) :
          /\ Age(p, poll.purge.at) > Hour /\ p \notin Held(poll.purge.after)
          /\ Age(q, poll.purge.at) = Hour /\ q \in Held(poll.purge.after)

\* C24: GetState, by key or by path, returns a State made by NewState, and
\* true, as long as Done was not called on it and no purge removed it; after
\* its Done it returns nil and false; only a State's own Done, or a purge of
\* a State older than one hour, takes it from the table.
C24_GetStateUntilDone ==
    \A p \in DOMAIN poll.heap :
        /\ poll.heap[p].Key = KeyOf(p)
        /\ \A keyOrPath \in PathsOf(p) :
              LET r == GetState(poll.s, keyOrPath)
              IN  /\ (~poll.user[p].done /\ poll.gone[p] # "purge") =>
                         r = [state |-> p, ok |-> TRUE]
                  /\ poll.user[p].done => r = [state |-> NoState, ok |-> FALSE]
        /\ poll.gone[p] = "done" => poll.user[p].done
        /\ poll.gone[p] = "purge" => Age(p, poll.now) > Hour
        /\ poll.user[p].rcv \in {"waiting", "got"} => poll.user[p].from = p

\* C24 happens: Done was called on the first State and the second is still
\* found, by a long-poll request among others
C24_Witness ==
    /\ Len(poll.heap) = 2
    /\ poll.user[1].done /\ poll.gone[1] = "done"
    /\ ~poll.user[2].done /\ poll.gone[2] = "no"
    /\ poll.user[2].rcv = "waiting" /\ poll.user[2].from = 2
    /\ poll.user[1].rcv = "notfound"

\* C25: the producer's send is never left waiting, wherever the long-poll
\* request is and whether or not the table still holds the State; a value
\* received is the value sent.
C25_SingleSendNeverBlocks ==
    \A p \in DOMAIN poll.heap :
        /\ poll.user[p].prod # "blocked"
        /\ poll.user[p].rcv = "got" =>
              /\ poll.user[p].prod = "sent"
              /\ poll.user[p].got = poll.user[p].sent
        /\ Len(poll.heap[p].C.buf) <= 1

\* C25 happens: a send ended on a State that was already out of the table
\* and has no long-poll request, and a long-poll request that arrived after
\* the send received the value
C25_Witness ==
    /\ Len(poll.heap) = 2
    /\ poll.user[1].prod = "sent" /\ poll.user[1].sentIn \in {"done", "purge"}
    /\ poll.user[1].rcv = "none"
    /\ poll.user[2].prod = "sent" /\ poll.user[2].sentRcv = "none"
    /\ poll.user[2].rcv = "got" /\ poll.user[2].got = 2

\* C26: the value object of NewV(t, v) has t's URI, a string, as @type; its
\* @value is v, of the kind v has, when v is a bool, int, float32, float64 or
\* string, and nil otherwise.
C26_NewVValueObject ==
    jld.op = "NewV" =>
        /\ DOMAIN jld.out = {"@type", "@value"}
        /\ jld.out["@type"] = Str(jld.t.uri)
        /\ jld.v \in Scalars => jld.out["@value"] = jld.v
        /\ jld.v \in Others => jld.out["@value"] = Nil

\* C26 happens: NewV was called with a float32
C26_Witness == jld.op = "NewV" /\ jld.v.kind = "float32" /\ jld.out["@value"].kind = "float32"

\* the types a node holds: the items of its @type set, or its single type
TypesOf(node) ==
    LET ty == node.fields["@type"]
    IN  IF ty.kind = KindSlice THEN {ty.items[i] : i \in DOMAIN ty.items} ELSE {ty}

\* the input of the call is a node with a single type or a set of types
TypedNode(input) ==
    /\ IsMap(input)
    /\ "@type" \in DOMAIN input.fields
    /\ input.fields["@type"].kind \in {KindString, KindSlice}

\* AddType refuses what is no node map
AddTypeRefusesNonNode ==
    (jld.op = "AddType" /\ ~IsMap(jld.input)) =>
        jld.out.err # NoErr /\ ~jld.out.panicked /\ jld.out.input = jld.input

\* C27: AddType(node, t) on a node with a single type or a set of types
\* returns nil and leaves in the node's @type set t's URI and every type the
\* node held; on what is no node map it returns an error.
C27_AddTypeAdds ==
    /\ AddTypeRefusesNonNode
    /\ (jld.op = "AddType" /\ TypedNode(jld.input)) =>
          /\ ~jld.out.panicked
          /\ jld.out.err = NoErr
          /\ jld.out.input.fields["@type"].kind = KindSlice
          /\ Str(jld.t.uri) \in TypesOf(jld.out.input)
          /\ TypesOf(jld.input) \subseteq TypesOf(jld.out.input)

\* what Append leaves and returns for the property before, a list object
AppendListCase(before, after) ==
    LET xs == before.fields["@list"].items
    IN  /\ jld.out.err = NoErr
        /\ IsMap(after) /\ "@list" \in DOMAIN after.fields
        /\ after.fields["@list"] = Slice(xs \o jld.items)
        /\ jld.out.slice = xs \o jld.items

\* what Append leaves and returns for the property before, a set or a
\* singleton
AppendSetCase(before, after) ==
    LET set == IF before.kind = KindSlice THEN before.items ELSE <<before>>
    IN  /\ jld.out.err = NoErr
        /\ after = Slice(set \o jld.items)
        /\ jld.out.slice = set \o jld.items

\* the property is a list object {"@list": xs}
IsListObject(v) == IsMap(v) /\ "@list" \in DOMAIN v.fields /\ v.fields["@list"].kind = KindSlice

\* the property is a set or a singleton
IsSetOrSingleton(v) == v.kind = KindSlice \/ v.kind = KindString
                          \/ (IsMap(v) /\ "@list" \notin DOMAIN v.fields)

\* Append was called on a node that has the property
AppendOnProperty ==
    /\ jld.op = "Append"
    /\ IsMap(jld.input)
    /\ jld.propID.uri \in DOMAIN jld.input.fields

\* Append on a set or a singleton
AppendToSet ==
    (AppendOnProperty /\ IsSetOrSingleton(jld.input.fields[jld.propID.uri])) =>
        AppendSetCase(jld.input.fields[jld.propID.uri], jld.out.input.fields[jld.propID.uri])

\* C28: Append(node, p, items...) leaves a list object {"@list": xs} a list
\* object whose @list is xs followed by items, leaves a set or singleton as
\* that set followed by items, and returns the resulting slice.
C28_AppendSetOrList ==
    /\ AppendToSet
    /\ (AppendOnProperty /\ IsListObject(jld.input.fields[jld.propID.uri])) =>
          AppendListCase(jld.input.fields[jld.propID.uri],
                         jld.out.input.fields[jld.propID.uri])

\* the callback went through the state check and the OP reported an error
OPError(c) == c.query.read /\ c.query.error # Absent

\* every value of the parameter is in the printed text
Carries(text, vals) == \A i \in 1..Len(vals) : Contains(text, vals[i])

\* C29: a callback that passed the cookie and state checks and brings an
\* error parameter is rejected with a 400 whose body holds the values of error,
\* error_description and error_uri as they came, with or without a code in
\* the query; no assertion is signed and the OP is not called.
C29_OPErrorReported ==
    OPError(cb) =>
        /\ Rejected400(cb)
        /\ IsError400(cb.rsp)
        /\ cb.rsp.msg = "OP Authn Request Error"
        /\ Len(cb.rsp.args) = 3
        /\ Carries(cb.rsp.args[1], cb.query.error)
        /\ Carries(cb.rsp.args[2], cb.query.error_description)
        /\ Carries(cb.rsp.args[3], cb.query.error_uri)
        /\ ~cb.clientAssertion.signed
        /\ CallsOf(cb.id) = {}

\* C29 happens: the query held error, error_description, error_uri and one
\* code, and the callback was rejected
C29_Witness ==
    /\ OPError(cb) /\ cb.pc = "Rejected"
    /\ cb.query.error_description # Absent /\ cb.query.error_uri # Absent
    /\ Len(cb.query.code) = 1
    /\ Opens(cb) /\ ~BadStateParam(cb)

\* the callback went through the state check and the OP reported no error
NoOPError(c) == c.query.read /\ c.query.error = Absent

\* C30: a callback that passed the state check and brings no error is
\* rejected, with no assertion signed and no call to the OP, unless code has
\* exactly one value; the token POST sends that value.
C30_OneCode ==
    /\ (NoOPError(cb) /\ Len(cb.query.code) # 1) =>
          /\ Rejected400(cb)
          /\ cb.last = "StateChecked"
          /\ ~cb.clientAssertion.signed
          /\ CallsOf(cb.id) = {}
    /\ \A i \in TokenCalls \cap CallsOf(cb.id) :
          /\ NoOPError(cb) /\ Len(cb.query.code) = 1
          /\ opCalls[i].code = cb.query.code[1]

\* C30 happens: a callback with two codes was rejected after one with one
\* code had its code posted
C30_Witness ==
    /\ NoOPError(cb) /\ Len(cb.query.code) = 2 /\ cb.pc = "Rejected"
    /\ \E i \in TokenCalls : opCalls[i].req # cb.id /\ opCalls[i].code = <<107>>

\* the token response is one the handler goes on with
TokenAccepted(c) ==
    c.tokenRsp.status = 200 /\ c.tokenRsp.ctype = "application/json" /\ c.tokenRsp.json

\* the pipeline states past the token exchange
PastTokenExchange == {"TokenParsed", "NonceChecked", "UserInfoFetched", "Responded"}

\* C31: a callback goes past the token exchange only with a token response
\* of status 200 and Content-Type application/json whose body parses; any
\* other token response is answered 400, for a status other than 200 with the
\* status and the body, and then no ID token is verified and no userinfo
\* request is sent.
C31_TokenResponseAccepted ==
    /\ cb.last \in PastTokenExchange => cb.tokenRsp.read /\ TokenAccepted(cb)
    /\ (cb.tokenRsp.read /\ TokenAccepted(cb)) => cb.last \in PastTokenExchange
    /\ (cb.tokenRsp.read /\ ~TokenAccepted(cb)) =>
          /\ Rejected400(cb) /\ IsError400(cb.rsp)
          /\ cb.last = "TokenExchanged"
          /\ ~cb.idToken.parsed
          /\ CallsOf(cb.id) \cap UserInfoCalls = {}
    /\ (cb.tokenRsp.read /\ cb.tokenRsp.status # 200) =>
          /\ cb.rsp.msg = "OP Token Request Status Error"
          /\ cb.rsp.args = <<StatusText(cb.tokenRsp.status), cb.tokenRsp.text>>

\* C31 happens: the token endpoint answered 500 with a text, and the
\* callback was rejected
C31_Witness ==
    /\ cb.tokenRsp.read /\ cb.tokenRsp.status = 500 /\ cb.tokenRsp.text = TokenDenied
    /\ cb.pc = "Rejected"
    /\ cb.rsp.args = <<<<53, 48, 48>>, TokenDenied>>

\* the handler has dealt with the ID token of the token response
IDTokenStepTaken(c) == c.last \in PastTokenExchange /\ c.pc # "TokenParsed"

\* the ID token handed to jwt.Parse is a signed token that verifies under
\* the Secret of the FlowState in the cookie
VerifiesUnderFlowSecret(c) ==
    /\ c.jwt.read /\ c.jwt.kind = "jwt"
    /\ c.jwt.key = FlowStateOf(c.cookie.value).Secret

\* C32: a callback is answered 200 only after a non-empty ID token verified
\* as a token signed with the Secret of the cookie's FlowState; with an empty
\* ID token, or one that does not verify under that Secret, the callback is
\* rejected before the nonce is compared and no userinfo request is sent.
C32_IDTokenVerified ==
    /\ (cb.pc = "Responded" \/ cb.rsp.status = 200) =>
          /\ cb.tokenRspBody.IDToken # <<>>
          /\ cb.idToken.parsed
          /\ VerifiesUnderFlowSecret(cb)
    /\ cb.idToken.parsed => cb.tokenRspBody.IDToken # <<>> /\ VerifiesUnderFlowSecret(cb)
    /\ (IDTokenStepTaken(cb)
          /\ (cb.tokenRspBody.IDToken = <<>> \/ ~VerifiesUnderFlowSecret(cb))) =>
          /\ Rejected400(cb)
          /\ cb.last = "TokenParsed"
          /\ ~cb.idToken.parsed
          /\ cb.rsp.msg = IF cb.tokenRspBody.IDToken = <<>>
                          THEN "Missing Token Response ID Token"
                          ELSE "ID Token Parsing Failed with Error"
          /\ CallsOf(cb.id) \cap UserInfoCalls = {}

\* C32 happens: an ID token signed with another secret than the flow's was
\* rejected
C32_Witness ==
    /\ cb.jwt.read /\ cb.jwt.kind = "jwt"
    /\ cb.jwt.key # FlowStateOf(cb.cookie.value).Secret
    /\ cb.pc = "Rejected" /\ cb.last = "TokenParsed"

\* the handler has dealt with the access token of the token response
AccessTokenStepTaken(c) ==
    c.last \in {"NonceChecked", "UserInfoFetched", "Responded"} /\ c.pc # "NonceChecked"

\* the userinfo requests of the callback c
UserInfoCallsOf(c) == CallsOf(c.id) \cap UserInfoCalls

\* what C33 says and the code does alike: the userinfo request is sent only
\* with a non-empty access token and carries it as the Bearer token; with an
\* empty access token the callback is rejected and no request is sent; a 200
\* is written only after the userinfo endpoint answered 200
UserInfoGuarded(c) ==
    /\ \A i \in UserInfoCallsOf(c) :
          /\ c.tokenRspBody.AccessToken # <<>>
          /\ opCalls[i].authorization = Bearer \o c.tokenRspBody.AccessToken
    /\ (AccessTokenStepTaken(c) /\ c.tokenRspBody.AccessToken = <<>>) =>
          /\ Rejected400(c)
          /\ c.rsp.msg = "Missing Token Response Access Token"
          /\ UserInfoCallsOf(c) = {}
    /\ (c.userInfoRsp.read /\ c.userInfoRsp.status # 200) => Rejected400(c)
    /\ (c.pc = "Responded" \/ c.rsp.status = 200) =>
          /\ c.userInfoRsp.read /\ c.userInfoRsp.status = 200
          /\ Cardinality(UserInfoCallsOf(c)) = 1

\* the 400 reports the status and the body of the userinfo response
ReportsStatusAndBody(c) ==
    /\ c.rsp.msg = "User Info Request Failed"
    /\ c.rsp.args = <<StatusText(c.userInfoRsp.status), c.userInfoRsp.body>>

\* C33 (as claimed): the userinfo request is guarded as said, and every
\* userinfo response of a status other than 200 is answered with a 400 that
\* reports the status and the body.
C33_UserInfoStep ==
    /\ UserInfoGuarded(cb)
    /\ (cb.userInfoRsp.read /\ cb.userInfoRsp.status # 200) => ReportsStatusAndBody(cb)

\* C33 (amended): the userinfo request is guarded as said; a userinfo
\* response of a status other than 200 is answered with a 400 that reports
\* the status and the body when the body was read, and the read's error when
\* it was not.
C33_UserInfoStepBodyRead ==
    /\ UserInfoGuarded(cb)
    /\ (cb.userInfoRsp.read /\ cb.userInfoRsp.status # 200) =>
          IF cb.userInfoRsp.readErr
          THEN cb.rsp.msg = "Reading User Info Request Body Failed"
          ELSE ReportsStatusAndBody(cb)

\* C33 happens: a userinfo request went out with the Bearer token and was
\* answered 401 with a body, and the callback was rejected
C33_Witness ==
    /\ UserInfoCallsOf(cb) # {}
    /\ \A i \in UserInfoCallsOf(cb) : opCalls[i].authorization = Bearer \o <<116>>
    /\ cb.userInfoRsp.read /\ cb.userInfoRsp.status = 401 /\ ~cb.userInfoRsp.readErr
    /\ cb.pc = "Rejected"
    /\ cb.rsp.args = <<<<52, 48, 49>>, UserInfoDenied>>

\* C34: a /login whose method is not GET is answered 400 and sets neither a
\* cookie nor a Location; an /authn-token whose method is not GET is answered
\* 400, its cookie is not opened and the OP is not called for it.
C34_OnlyGET ==
    /\ (login.id # 0 /\ login.method # "GET") =>
          /\ IsError400(login.rsp)
          /\ login.rsp.msg = "Bad HTTP Method"
          /\ ~login.rsp.location.set
          /\ login.rsp.cookie = <<>>
          /\ login.authnCookieValue = <<>>
    /\ (cb.pc # "idle" /\ cb.method # "GET") =>
          /\ cb.pc \in {"Received", "Rejected"}
          /\ cb.last = "Received"
          /\ ~cb.cookie.read
          /\ cb.authnReqStateString = <<>>
          /\ ~cb.clientAssertion.signed
          /\ CallsOf(cb.id) = {}
          /\ cb.pc = "Rejected" => (IsError400(cb.rsp) /\ cb.rsp.msg = "Bad HTTP Method")

\* C34 happens: a POST to /authn-token was rejected while the browser held a
\* cookie of a login
C34_Witness ==
    /\ cb.method = "POST" /\ cb.pc = "Rejected"
    /\ browser # {}

\* C34 happens for /login as well: a POST to /login was answered 400
C34_LoginRefused == login.id # 0 /\ login.method = "POST" /\ login.rsp.status = 400

\* the login was answered with the redirect and was given both overrides
LoginWithOverrides ==
    login.rsp.status = 303 /\ login.clientIDs # Absent /\ login.secrets # Absent

\* the sealed FlowState of a login with overrides carries them
OverridesSealed ==
    LoginWithOverrides =>
        LET flow == Unmarshal(SealedAt(login.rsp).data)
        IN  flow.ClientID = login.clientIDs[1] /\ flow.Secret = login.secrets[1]

\* the redirect of a login with overrides asks for the overriding client
OverrideInRedirect ==
    LoginWithOverrides =>
        QueryValues(login.rsp.location.url, ParamClientID) = <<login.clientIDs[1]>>

\* the callback works with the ClientID and the Secret of its cookie, and
\* posts the redirect_uri that the login of the cookie sent
CallbackUsesCookieCredentials ==
    Opens(cb) =>
        LET flow == FlowStateOf(cb.cookie.value)
        IN  /\ cb.clientAssertion.signed =>
                  /\ cb.clientAssertion.iss = flow.ClientID
                  /\ cb.clientAssertion.sub = flow.ClientID
                  /\ cb.clientAssertion.key = flow.Secret
            /\ \A i \in CallsOf(cb.id) \cap TokenCalls :
                  /\ opCalls[i].client_id = flow.ClientID
                  /\ opCalls[i].assertionKey = flow.Secret
                  /\ \A b \in browser :
                        b.cookie = cb.cookie.value =>
                           QueryValues(b.location.url, ParamRedirectURI)
                              = <<opCalls[i].redirect_uri>>
            /\ cb.idToken.parsed => cb.jwt.key = flow.Secret

\* C35 (as claimed): a login with both overrides seals them in the FlowState
\* and names the overriding client in the redirect; the callback uses the
\* ClientID and Secret of its cookie for the token request's client_id, the
\* assertion's iss, sub and key and the key the ID token is verified with,
\* and posts the redirect_uri of the login.
C35_CredentialsTravel ==
    /\ OverridesSealed
    /\ OverrideInRedirect
    /\ CallbackUsesCookieCredentials

\* the handler took the cookie of c for a flow cookie: it went on past
\* aead.Decrypt
AcceptedAsFlowCookie(c) == c.last \notin {"idle", "Received"}

\* the text is a FlowState as json.Marshal writes it
IsFlowState(text) == Marshal(Unmarshal(text)) = text

\* the cookie is an envelope of the process's cipher whose label is
\* "AuthnReqState" and whose payload is a FlowState
IsFlowCookie(cookie) ==
    LET d == Decrypt(aeadCipher, cookie)
    IN  d.err = "nil" /\ d.metadata = AuthnReqStateLabel /\ IsFlowState(d.data)

\* C36 (as claimed): the callback goes on past the opening of the cookie only
\* with an envelope whose label is "AuthnReqState" and whose payload is a
\* FlowState; with an envelope of the same cipher under another label, or
\* with another payload, it is rejected and the state parameter is not
\* looked at.
C36_LabelSeparation ==
    /\ AcceptedAsFlowCookie(cb) => IsFlowCookie(cb.cookie.value)
    /\ (Opens(cb) /\ ~IsFlowCookie(cb.cookie.value)) =>
          /\ cb.pc \in {"Received", "Rejected"}
          /\ cb.last = "Received"
          /\ ~cb.state.read

\* the two halves of the failure: an envelope under the label "Other" is
\* never answered 200, and a payload that is no FlowState never reaches the
\* state check
C36_OtherLabelNeverServed ==
    (Opens(cb) /\ Decrypt(aeadCipher, cb.cookie.value).metadata # AuthnReqStateLabel)
        => cb.rsp.status # 200
C36_OtherPayloadNeverChecked ==
    (Opens(cb) /\ ~IsFlowState(Decrypt(aeadCipher, cb.cookie.value).data))
        => ~cb.state.read

\* the goroutine i is between Lock and the deferred Unlock of a method
InsideMethod(i) == States.g[i].pc \in {"Access", "Unlock"}

\* the statements on the map run with the mutex held by their goroutine, so
\* no two methods are between Lock and Unlock at once, and the mutex is held
\* by nobody who returned
MutexHeldByCaller ==
    /\ \A i \in Goroutines : InsideMethod(i) <=> States.m = i
    /\ \A i, j \in Goroutines : (InsideMethod(i) /\ InsideMethod(j)) => i = j

\* a method that is about to return had its effect on the map as Lock found
\* it: nothing but its own statements changed the map in between
EffectFrom(o, now) ==
    CASE o.op = "addState" -> States.s = [o.snap EXCEPT ![o.key] = o.state]
      [] o.op = "delState" -> States.s = [o.snap EXCEPT ![o.key] = NoEntry]
      [] o.op = "GetState" ->
            /\ States.s = o.snap
            /\ o.state = o.snap[o.key] /\ o.ok = o.snap[o.key].present
      [] o.op = "purgeAbandonedStates" ->
            \A k \in TableKeys :
               /\ Abandoned(o.snap[k], o.at) => ~States.s[k].present
               /\ States.s[k] # o.snap[k] =>
                     Abandoned(o.snap[k], now) /\ States.s[k] = NoEntry
      [] OTHER -> TRUE

TakesEffectAtomically ==
    \A i \in Goroutines :
       /\ States.g[i].pc = "Unlock" => EffectFrom(States.g[i], States.now)
       /\ (States.g[i].pc = "Access" /\ States.g[i].op # "purgeAbandonedStates") =>
             States.s = States.g[i].snap

\* C37: the methods of the States table touch the map only with the mutex
\* held, no two of them are inside at once, each has its effect on the map
\* as it was when the method locked, and a mutex that is locked is unlocked
\* again.
C37_TableMutex ==
    /\ [](MutexHeldByCaller /\ TakesEffectAtomically)
    /\ \A i \in Goroutines : (States.m = i) ~> (States.m # i)

\* C37 happens: purgeAbandonedStates has deleted one abandoned State and has
\* another to look at, while both other goroutines wait for the mutex, one
\* to add a State and one to delete one
C37_Witness ==
    /\ States.m = Ticker /\ States.g[Ticker].pc = "Access"
    /\ States.g[Ticker].todo # {} /\ States.s # States.g[Ticker].snap
    /\ \E i, j \in Handlers :
          /\ States.g[i].pc = "Lock" /\ States.g[i].op = "addState"
          /\ States.g[j].pc = "Lock" /\ States.g[j].op = "delState"

\* the logger the last Config of the executable set; without a Config the
\* logger on stderr with no prefix and no flag
Configured(l) == IF l.set THEN l ELSE gologNew("stderr", "", 0)

\* log/log.go: every handle Logger() returned is, and writes with, the
\* logger of the most recent Config
SharedLogger ==
    /\ \A h \in logs.handles : h = Configured(logs.config)
    /\ logs.last.set => logs.last = Configured(logs.config)

\* the package with LoggerT: the handle Logger() returned writes with the
\* logger of the most recent Config
SharedLoggerT ==
    /\ logs.handedT => Println(logs.loggerT) = Configured(logs.configT)
    /\ logs.lastT.set => logs.lastT = Configured(logs.configT)

\* C38 (as claimed): whatever the order of the calls of Logger() and Config,
\* every handle Logger() returned writes to the destination and with the
\* prefix and the flags of the most recent Config, and to stderr with no
\* prefix and no flag when Config was never called.
C38_SharedLogger ==
    /\ SharedLogger
    /\ SharedLoggerT

=============================================================================
